---- MODULE Spec2Model ----
(***************************************************************************)
(* Model of the HTTP file server of fs.go: the Range parser (parseRange),  *)
(* the RFC 7232 precondition evaluator (checkPreconditions and the five    *)
(* check* functions) and the content delivery of serveContent.             *)
(*                                                                         *)
(* Header texts are modelled as sequences of one-character strings, so     *)
(* that trimming, splitting, cutting and integer parsing are computed as   *)
(* the code computes them.                                                 *)
(***************************************************************************)
EXTENDS Integers, Sequences, FiniteSets, TLC

\* ------------------------------------------------------------------------
\* Bounds of the model
\* ------------------------------------------------------------------------

\* Resource sizes range over 0..MaxSize; the numbers written in Range
\* headers range over 0..MaxSize+1, so that bounds beyond the size occur.
MaxSize == 3

Sizes == 0..MaxSize

Nums == 0..(MaxSize + 1)

\* ------------------------------------------------------------------------
\* Text helpers (strings, textproto, strconv as used by fs.go)
\* ------------------------------------------------------------------------

DigitSeq == <<"0", "1", "2", "3", "4", "5", "6", "7", "8", "9">>

DigitChars == {DigitSeq[i] : i \in 1..Len(DigitSeq)}

DigitVal(c) == (CHOOSE i \in 1..Len(DigitSeq) : DigitSeq[i] = c) - 1

\* The largest int64, 9223372036854775807, as decimal digits: TLC's integers
\* cannot hold it, so the range check of ParseInt compares digit strings.
MaxInt64Digits ==
    <<"9","2","2","3","3","7","2","0","3","6","8","5","4","7","7","5","8","0","7">>

\* textproto.TrimString strips ASCII space (space, tab, CR, LF) at both ends.
IsASCIISpace(c) == c \in {" ", "\t", "\n", "\r"}

RECURSIVE TrimLeft(_)
TrimLeft(s) ==
    IF s # <<>> /\ IsASCIISpace(Head(s)) THEN TrimLeft(Tail(s)) ELSE s

RECURSIVE TrimRight(_)
TrimRight(s) ==
    IF s # <<>> /\ IsASCIISpace(s[Len(s)])
    THEN TrimRight(SubSeq(s, 1, Len(s) - 1))
    ELSE s

TrimString(s) == TrimRight(TrimLeft(s))

HasPrefix(s, p) == Len(s) >= Len(p) /\ SubSeq(s, 1, Len(p)) = p

TrimPrefix(s, p) == IF HasPrefix(s, p) THEN SubSeq(s, Len(p) + 1, Len(s)) ELSE s

\* Index of the first occurrence of character c in s, 0 when there is none.
IndexOf(s, c) ==
    IF \E i \in 1..Len(s) : s[i] = c
    THEN CHOOSE i \in 1..Len(s) : s[i] = c /\ \A j \in 1..(i - 1) : s[j] # c
    ELSE 0

\* strings.Cut(s, sep) for a one-character separator.
Cut(s, c) ==
    LET i == IndexOf(s, c)
    IN  IF i = 0
        THEN [before |-> s, after |-> <<>>, found |-> FALSE]
        ELSE [before |-> SubSeq(s, 1, i - 1),
              after  |-> SubSeq(s, i + 1, Len(s)),
              found  |-> TRUE]

\* strings.Split(s, sep) for a one-character separator: always at least one
\* piece, empty pieces kept.
RECURSIVE Split(_, _)
Split(s, c) ==
    LET i == IndexOf(s, c)
    IN  IF i = 0
        THEN <<s>>
        ELSE <<SubSeq(s, 1, i - 1)>> \o Split(SubSeq(s, i + 1, Len(s)), c)

RECURSIVE StripZeros(_)
StripZeros(s) ==
    IF Len(s) > 1 /\ Head(s) = "0" THEN StripZeros(Tail(s)) ELSE s

\* a > b for two digit strings of the same length.
RECURSIVE DigitsGreater(_, _)
DigitsGreater(a, b) ==
    IF a = <<>> THEN FALSE
    ELSE IF DigitVal(Head(a)) # DigitVal(Head(b))
         THEN DigitVal(Head(a)) > DigitVal(Head(b))
         ELSE DigitsGreater(Tail(a), Tail(b))

RECURSIVE DigitsValue(_, _)
DigitsValue(s, acc) ==
    IF s = <<>> THEN acc ELSE DigitsValue(Tail(s), acc * 10 + DigitVal(Head(s)))

\* strconv.ParseInt(s, 10, 64): an optional sign, then one or more decimal
\* digits; a syntax error otherwise, a range error beyond the int64 range.
\* The code never reads the value when err is set, so it is given as 0.
\* (-2^63 itself is reported out of range here: no input of the model and no
\* accepted bound of parseRange is negative.)
ParseInt(s) ==
    LET Failed == [err |-> TRUE, val |-> 0]
        Value(sig, neg) ==
            IF \/ Len(sig) > Len(MaxInt64Digits)
               \/ /\ Len(sig) = Len(MaxInt64Digits)
                  /\ DigitsGreater(sig, MaxInt64Digits)
            THEN Failed
            ELSE [err |-> FALSE,
                  val |-> IF neg THEN 0 - DigitsValue(sig, 0)
                                 ELSE DigitsValue(sig, 0)]
        Unsigned(body, neg) ==
            IF body = <<>> \/ \E i \in 1..Len(body) : body[i] \notin DigitChars
            THEN Failed
            ELSE Value(StripZeros(body), neg)
    IN  IF s # <<>> /\ s[1] \in {"+", "-"}
        THEN Unsigned(Tail(s), s[1] = "-")
        ELSE Unsigned(s, FALSE)

\* strconv.FormatInt(n, 10) / the %d verb of fmt.Sprintf.
RECURSIVE NatDigits(_)
NatDigits(n) ==
    IF n < 10 THEN <<DigitSeq[n + 1]>>
    ELSE NatDigits(n \div 10) \o <<DigitSeq[(n % 10) + 1]>>

FormatInt(n) == IF n < 0 THEN <<"-">> \o NatDigits(0 - n) ELSE NatDigits(n)

\* ------------------------------------------------------------------------
\* parseRange
\* ------------------------------------------------------------------------

BytesPrefix == <<"b", "y", "t", "e", "s", "=">>

ErrNil == "nil"

ErrInvalid == "invalid range"

ErrNoOverlap == "invalid range: failed to overlap"

httpRange(start, length) == [start |-> start, length |-> length]

\* The range of a suffix-length i: the last min(i, size) bytes.
SuffixRange(i, size) ==
    LET n      == IF i > size THEN size ELSE i
        rstart == size - n
    IN  httpRange(rstart, size - rstart)

\* The range from start to the end of the resource (no end given).
OpenRange(start, size) == httpRange(start, size - start)

\* The range start..i, i clamped to the last byte of the resource.
ClosedRangeShort(start, i, size) ==
    httpRange(start, (IF i >= size THEN size - 1 ELSE i) - start)

ClosedRange(start, i, size) ==
    LET e == IF i >= size THEN size - 1 ELSE i
    IN  httpRange(start, e - start + 1)

\* A parser that reads the end of a spec before it compares the start with
\* the size.
ParseSpecEndFirst(ra, size) ==
    LET Invalid == [kind |-> "invalid"]
        Ended(p, end, q) ==
            IF p.err \/ p.val < 0 THEN Invalid
            ELSE IF end # <<>> /\ (q.err \/ p.val > q.val) THEN Invalid
            ELSE IF p.val >= size THEN [kind |-> "noOverlap"]
            ELSE IF end = <<>>
                 THEN [kind |-> "range", r |-> OpenRange(p.val, size)]
                 ELSE [kind |-> "range", r |-> ClosedRange(p.val, q.val, size)]
        Suffix(p) ==
            IF p.val < 0 \/ p.err THEN Invalid
            ELSE [kind |-> "range", r |-> SuffixRange(p.val, size)]
        Bounds(start, end) ==
            IF start = <<>>
            THEN IF end = <<>> \/ end[1] = "-" THEN Invalid
                 ELSE Suffix(ParseInt(end))
            ELSE Ended(ParseInt(start), end, ParseInt(end))
        Parts(c) ==
            IF ~c.found THEN Invalid
            ELSE Bounds(TrimString(c.before), TrimString(c.after))
    IN  Parts(Cut(ra, "-"))

\* One comma-separated spec of the header, already trimmed and not empty:
\* kind "range" (r is the parsed range), "noOverlap" (start at or beyond
\* the size) or "invalid".
ParseSpec(ra, size) ==
    LET Invalid == [kind |-> "invalid"]
        Closed(p, q) ==
            IF q.err \/ p.val > q.val THEN Invalid
            ELSE [kind |-> "range", r |-> ClosedRange(p.val, q.val, size)]
        From(p, end) ==
            IF p.err \/ p.val < 0 THEN Invalid
            ELSE IF p.val >= size THEN [kind |-> "noOverlap"]
            ELSE IF end = <<>>
                 THEN [kind |-> "range", r |-> OpenRange(p.val, size)]
                 ELSE Closed(p, ParseInt(end))
        Suffix(p) ==
            IF p.val < 0 \/ p.err THEN Invalid
            ELSE [kind |-> "range", r |-> SuffixRange(p.val, size)]
        Bounds(start, end) ==
            IF start = <<>>
            THEN \* suffix-length
                 IF end = <<>> \/ end[1] = "-" THEN Invalid
                 ELSE Suffix(ParseInt(end))
            ELSE From(ParseInt(start), end)
        Parts(c) ==
            IF ~c.found THEN Invalid
            ELSE Bounds(TrimString(c.before), TrimString(c.after))
    IN  Parts(Cut(ra, "-"))

\* The loop of parseRange over the pieces of strings.Split, with the ranges
\* appended so far and the noOverlap flag.
RECURSIVE ParseLoop(_, _, _, _)
ParseLoop(pieces, size, ranges, noOverlap) ==
    LET Step(sp) ==
            CASE sp.kind = "invalid" ->
                   [ranges |-> <<>>, err |-> ErrInvalid]
              [] sp.kind = "noOverlap" ->
                   ParseLoop(Tail(pieces), size, ranges, TRUE)
              [] OTHER ->
                   ParseLoop(Tail(pieces), size, Append(ranges, sp.r), noOverlap)
        Piece(ra) ==
            IF ra = <<>>
            THEN ParseLoop(Tail(pieces), size, ranges, noOverlap)
            ELSE Step(ParseSpec(ra, size))
    IN  IF pieces = <<>>
        THEN IF noOverlap /\ Len(ranges) = 0
             THEN [ranges |-> <<>>, err |-> ErrNoOverlap]
             ELSE [ranges |-> ranges, err |-> ErrNil]
        ELSE Piece(TrimString(Head(pieces)))

parseRange(s, size) ==
    IF s = <<>> THEN [ranges |-> <<>>, err |-> ErrNil]
    ELSE IF ~HasPrefix(s, BytesPrefix)
         THEN [ranges |-> <<>>, err |-> ErrInvalid]
         ELSE ParseLoop(Split(SubSeq(s, Len(BytesPrefix) + 1, Len(s)), ","),
                        size, <<>>, FALSE)

\* ------------------------------------------------------------------------
\* Times
\* ------------------------------------------------------------------------

\* A time.Time is a number of ticks since the Unix epoch; a second has
\* TicksPerSecond ticks, so that modification times carry a sub-second
\* part. ZeroTime, the zero value of time.Time (year 1), is an instant
\* before the epoch and before every other time of the model.
TicksPerSecond == 2

ZeroTime == 0 - TicksPerSecond

IsZero(t) == t = ZeroTime

\* isZeroTime: the zero value or exactly the Unix epoch.
isZeroTime(t) == IsZero(t) \/ t = 0

\* t.Truncate(time.Second), for a time since the epoch.
Truncate(t) == (t \div TicksPerSecond) * TicksPerSecond

\* t.Unix(): whole seconds since the epoch.
Unix(t) == t \div TicksPerSecond

\* http.TimeFormat over the first ten seconds of the epoch:
\* "Thu, 01 Jan 1970 00:00:0s GMT".
DatePrefix ==
    <<"T","h","u",","," ","0","1"," ","J","a","n"," ","1","9","7","0"," ",
      "0","0",":","0","0",":","0">>

DateSuffix == <<" ", "G", "M", "T">>

\* modtime.UTC().Format(http.TimeFormat): the sub-second part is dropped.
FormatTime(t) == DatePrefix \o <<DigitSeq[Unix(t) + 1]>> \o DateSuffix

HTTPDate(sec) == FormatTime(sec * TicksPerSecond)

\* http.ParseTime on the texts of the model: a text in http.TimeFormat
\* parses to its time (whole seconds), anything else is an error.
ParseTime(s) ==
    IF /\ Len(s) = Len(DatePrefix) + 1 + Len(DateSuffix)
       /\ SubSeq(s, 1, Len(DatePrefix)) = DatePrefix
       /\ s[Len(DatePrefix) + 1] \in DigitChars
       /\ SubSeq(s, Len(DatePrefix) + 2, Len(s)) = DateSuffix
    THEN [err |-> FALSE, t |-> DigitVal(s[Len(DatePrefix) + 1]) * TicksPerSecond]
    ELSE [err |-> TRUE, t |-> 0]

\* ------------------------------------------------------------------------
\* ETags and the precondition checks
\* ------------------------------------------------------------------------

Quote == "\""

WeakPrefix == <<"W", "/">>

\* Characters allowed inside an ETag: 0x21, 0x23..0x7E and 0x80 up, that is
\* every character of the model but the quote and white space.
IsETagChar(c) == c # Quote /\ ~IsASCIISpace(c)

\* scanETag: the syntactically valid ETag at the start of s and the text
\* after it, or etag = <<>> when there is none.
scanETag(s0) ==
    LET none == [etag |-> <<>>, remain |-> <<>>]
        Tag(s, i) ==
            IF s[i] = Quote
            THEN [etag |-> SubSeq(s, 1, i), remain |-> SubSeq(s, i + 1, Len(s))]
            ELSE none
        Stop(s, stops) ==
            IF stops = {} THEN none
            ELSE Tag(s, CHOOSE k \in stops : \A j \in stops : k <= j)
        Scan(s, start) ==
            IF Len(s) - start < 2 \/ s[start + 1] # Quote THEN none
            ELSE Stop(s, {i \in (start + 2)..Len(s) : ~IsETagChar(s[i])})
        Trimmed(s) == Scan(s, IF HasPrefix(s, WeakPrefix) THEN 2 ELSE 0)
    IN  Trimmed(TrimString(s0))

etagStrongMatchAnyKind(a, b) == a = b /\ a # <<>>

etagStrongMatch(a, b) == a = b /\ a # <<>> /\ a[1] = Quote

etagWeakMatchExact(a, b) == a = b

etagWeakMatch(a, b) == TrimPrefix(a, WeakPrefix) = TrimPrefix(b, WeakPrefix)

condNone == "condNone"

condTrue == "condTrue"

condFalse == "condFalse"

\* The scan of checkIfMatch over the header text; etag is the response's
\* current ETag header.
RECURSIVE IfMatchLoop(_, _)
IfMatchLoop(im0, etag) ==
    LET Tag(sc) ==
            IF sc.etag = <<>> THEN condFalse
            ELSE IF etagStrongMatch(sc.etag, etag) THEN condTrue
            ELSE IfMatchLoop(sc.remain, etag)
        Element(im) ==
            IF Len(im) = 0 THEN condFalse
            ELSE IF im[1] = "," THEN IfMatchLoop(Tail(im), etag)
            ELSE IF im[1] = "*" THEN condTrue
            ELSE Tag(scanETag(im))
    IN  Element(TrimString(im0))

checkIfMatch(r) ==
    IF r.ifMatch = <<>> THEN condNone ELSE IfMatchLoop(r.ifMatch, r.wEtag)

\* modtime.Truncate(time.Second).Compare(t) <= 0
NotAfter(modtime, t) == Truncate(modtime) <= t

checkIfUnmodifiedSinceInverted(r) ==
    IF r.ifUnmodifiedSince = <<>> \/ isZeroTime(r.modtime) THEN condNone
    ELSE LET p == ParseTime(r.ifUnmodifiedSince)
         IN  IF p.err THEN condNone
             ELSE IF NotAfter(r.modtime, p.t) THEN condFalse ELSE condTrue

checkIfUnmodifiedSince(r) ==
    IF r.ifUnmodifiedSince = <<>> \/ isZeroTime(r.modtime) THEN condNone
    ELSE LET p == ParseTime(r.ifUnmodifiedSince)
         IN  IF p.err THEN condNone
             ELSE IF NotAfter(r.modtime, p.t) THEN condTrue ELSE condFalse

RECURSIVE IfNoneMatchLoop(_, _)
IfNoneMatchLoop(buf0, etag) ==
    LET Tag(sc) ==
            IF sc.etag = <<>> THEN condTrue
            ELSE IF etagWeakMatch(sc.etag, etag) THEN condFalse
            ELSE IfNoneMatchLoop(sc.remain, etag)
        Element(buf) ==
            IF Len(buf) = 0 THEN condTrue
            ELSE IF buf[1] = "," THEN IfNoneMatchLoop(Tail(buf), etag)
            ELSE IF buf[1] = "*" THEN condFalse
            ELSE Tag(scanETag(buf))
    IN  Element(TrimString(buf0))

checkIfNoneMatch(r) ==
    IF r.ifNoneMatch = <<>> THEN condNone
    ELSE IfNoneMatchLoop(r.ifNoneMatch, r.wEtag)

IsGetOnly(r) == r.method = "GET"

IsGetOrHead(r) == r.method = "GET" \/ r.method = "HEAD"

checkIfModifiedSinceAnyMethod(r) ==
    IF r.ifModifiedSince = <<>> \/ isZeroTime(r.modtime) THEN condNone
    ELSE LET p == ParseTime(r.ifModifiedSince)
         IN  IF p.err THEN condNone
             ELSE IF NotAfter(r.modtime, p.t) THEN condFalse ELSE condTrue

checkIfModifiedSince(r) ==
    IF ~IsGetOrHead(r) THEN condNone
    ELSE IF r.ifModifiedSince = <<>> \/ isZeroTime(r.modtime) THEN condNone
    ELSE LET p == ParseTime(r.ifModifiedSince)
         IN  IF p.err THEN condNone
             ELSE IF NotAfter(r.modtime, p.t) THEN condFalse ELSE condTrue

checkIfRangeWeak(r) ==
    LET Date(p) ==
            IF p.err THEN condFalse
            ELSE IF Unix(p.t) = Unix(r.modtime) THEN condTrue
            ELSE condFalse
        Value(sc) ==
            IF sc.etag # <<>>
            THEN IF etagWeakMatch(sc.etag, r.wEtag) THEN condTrue ELSE condFalse
            ELSE IF IsZero(r.modtime) THEN condFalse
            ELSE Date(ParseTime(r.ifRange))
    IN  IF ~IsGetOrHead(r) THEN condNone
        ELSE IF r.ifRange = <<>> THEN condNone
        ELSE Value(scanETag(r.ifRange))

checkIfRange(r) ==
    LET Date(p) ==
            IF p.err THEN condFalse
            ELSE IF Unix(p.t) = Unix(r.modtime) THEN condTrue
            ELSE condFalse
        Value(sc) ==
            IF sc.etag # <<>>
            THEN IF etagStrongMatch(sc.etag, r.wEtag) THEN condTrue ELSE condFalse
            ELSE IF IsZero(r.modtime) THEN condFalse
            ELSE Date(ParseTime(r.ifRange))
    IN  IF ~IsGetOrHead(r) THEN condNone
        ELSE IF r.ifRange = <<>> THEN condNone
        ELSE Value(scanETag(r.ifRange))

\* checkPreconditions: done with a status (412 or 304), or not done with
\* the Range header to parse (empty when absent or dropped by If-Range).
\* `by` names the header that decided, `evaluated` the checks called.
checkPreconditions(r) ==
    LET fin(status, by, ev) ==
            [done |-> TRUE, status |-> status, by |-> by, evaluated |-> ev,
             rangeHeader |-> <<>>]
        Range(ev) ==
            IF r.range # <<>> /\ checkIfRange(r) = condFalse
            THEN [done |-> FALSE, status |-> 0, by |-> "none",
                  evaluated |-> ev \cup {"If-Range"}, rangeHeader |-> <<>>]
            ELSE [done |-> FALSE, status |-> 0, by |-> "none",
                  evaluated |-> IF r.range # <<>> THEN ev \cup {"If-Range"}
                                                  ELSE ev,
                  rangeHeader |-> r.range]
        NoneMatch(nm, ev) ==
            IF nm = condFalse
            THEN fin(IF IsGetOrHead(r) THEN 304 ELSE 412, "If-None-Match", ev)
            ELSE IF nm = condNone /\ checkIfModifiedSince(r) = condFalse
            THEN fin(304, "If-Modified-Since", ev \cup {"If-Modified-Since"})
            ELSE Range(IF nm = condNone THEN ev \cup {"If-Modified-Since"}
                                        ELSE ev)
        Match(im, ch, ev) ==
            IF ch = condFalse
            THEN fin(412, IF im = condNone THEN "If-Unmodified-Since"
                                           ELSE "If-Match", ev)
            ELSE NoneMatch(checkIfNoneMatch(r), ev \cup {"If-None-Match"})
        IfMatch(im) ==
            Match(im,
                  IF im = condNone THEN checkIfUnmodifiedSince(r) ELSE im,
                  IF im = condNone THEN {"If-Match", "If-Unmodified-Since"}
                                   ELSE {"If-Match"})
    IN  IfMatch(checkIfMatch(r))

\* ------------------------------------------------------------------------
\* serveContent
\* ------------------------------------------------------------------------

OctetStream == <<"a", "p", "p", "l", "i", "c", "a", "t", "i", "o", "n", "/", "o", "c", "t", "e", "t", "-", "s", "t", "r", "e", "a", "m">>

\* The type mime.TypeByExtension finds for a known extension (here .png).
ExtensionType == <<"i", "m", "a", "g", "e", "/", "p", "n", "g">>

CRLF == <<"\r", "\n">>

DashDash == <<"-", "-">>

MultipartType ==
    <<"m", "u", "l", "t", "i", "p", "a", "r", "t", "/", "b", "y", "t", "e", "r", "a", "n", "g", "e", "s", ";", " ", "b", "o", "u", "n", "d", "a", "r", "y", "=">>

\* multipart.Writer draws a boundary of 30 random bytes written in hex.
BoundaryLen == 60

\* The boundary of the writer whose parts are sent, and the one of the
\* counting writer of rangesMIMESize: two draws of the same length.
Boundary == [i \in 1..BoundaryLen |-> "f"]

DryRunBoundary == [i \in 1..BoundaryLen |-> "0"]

ContentRangeName == <<"C", "o", "n", "t", "e", "n", "t", "-", "R", "a", "n", "g", "e", ":", " ">>

ContentTypeName == <<"C", "o", "n", "t", "e", "n", "t", "-", "T", "y", "p", "e", ":", " ">>

BytesSpace == <<"b", "y", "t", "e", "s", " ">>

contentRangeExclusive(ra, size) ==
    BytesSpace \o FormatInt(ra.start) \o <<"-">>
        \o FormatInt(ra.start + ra.length) \o <<"/">> \o FormatInt(size)

\* httpRange.contentRange: "bytes start-end/size".
contentRange(ra, size) ==
    BytesSpace \o FormatInt(ra.start) \o <<"-">>
        \o FormatInt(ra.start + ra.length - 1) \o <<"/">> \o FormatInt(size)

\* The hint of a 416: "bytes */size".
UnsatisfiedRange(size) == BytesSpace \o <<"*", "/">> \o FormatInt(size)

\* What multipart.Writer.CreatePart writes for one range: the delimiter and
\* the part's header lines, keys sorted.
PartHeader(first, ra, ctype, size, boundary) ==
    (IF first THEN <<>> ELSE CRLF) \o DashDash \o boundary \o CRLF
        \o ContentRangeName \o contentRange(ra, size) \o CRLF
        \o ContentTypeName \o ctype \o CRLF
        \o CRLF

\* What multipart.Writer.Close writes.
Terminator(boundary) == CRLF \o DashDash \o boundary \o DashDash \o CRLF

RECURSIVE FramingSize(_, _, _, _)
FramingSize(ranges, first, ctype, size) ==
    IF ranges = <<>> THEN Len(Terminator(DryRunBoundary))
    ELSE Len(PartHeader(first, Head(ranges), ctype, size, DryRunBoundary))
             + FramingSize(Tail(ranges), FALSE, ctype, size)

sumRangesSizeFirst(ranges) ==
    IF ranges = <<>> THEN 0 ELSE Head(ranges).length

RECURSIVE sumRangesSize(_)
sumRangesSize(ranges) ==
    IF ranges = <<>> THEN 0
    ELSE Head(ranges).length + sumRangesSize(Tail(ranges))

rangesMIMESizeFraming(ranges, ctype, size) ==
    FramingSize(ranges, TRUE, ctype, size)

\* rangesMIMESize: the ranges' bytes plus the framing a counting writer sees.
rangesMIMESize(ranges, ctype, size) ==
    sumRangesSize(ranges) + FramingSize(ranges, TRUE, ctype, size)

\* The resource's byte at an offset, and the bytes a range covers.
ContentByte(i) == DigitSeq[(i % 10) + 1]

ContentBytes(ra) ==
    IF ra.length = 0 THEN <<>>
    ELSE [k \in 1..ra.length |-> ContentByte(ra.start + k - 1)]

\* What the producer goroutine writes into the pipe when every seek and
\* copy succeeds: each part's header and bytes, then the terminator.
RECURSIVE ProducerOutput(_, _, _, _)
ProducerOutput(ranges, first, ctype, size) ==
    IF ranges = <<>> THEN Terminator(Boundary)
    ELSE PartHeader(first, Head(ranges), ctype, size, Boundary)
             \o ContentBytes(Head(ranges))
             \o ProducerOutput(Tail(ranges), FALSE, ctype, size)

\* What the producer has written when its first seek fails: the header of
\* the first part.
AbortedOutput(ranges, ctype, size) ==
    PartHeader(TRUE, ranges[1], ctype, size, Boundary)

NoText == <<>>

NoLength == -1

NoBody == [kind |-> "none", msg |-> "", parts |-> <<>>]

ErrorBody(msg) == [kind |-> "error", msg |-> msg, parts |-> <<>>]

\* The content bytes of the listed ranges, in order.
ContentBody(kind, parts) == [kind |-> kind, msg |-> "", parts |-> parts]

\* The multipart body io.CopyN sends: at most sendSize bytes of what the
\* producer wrote (produced bytes in all).
MultipartBody(kind, parts, output, sendSize) ==
    [kind |-> kind, msg |-> "", parts |-> parts,
     text |-> SubSeq(output, 1, IF Len(output) < sendSize THEN Len(output)
                                                         ELSE sendSize),
     produced |-> Len(output)]

\* The headers serveContent has set when it calls checkPreconditions.
HeadersBefore(r) ==
    [etag               |-> r.wEtag,
     contentEncoding    |-> r.wEncoding,
     contentDisposition |-> r.dl,
     contentType        |-> IF r.dl THEN OctetStream ELSE NoText,
     lastModified       |-> IF isZeroTime(r.modtime) THEN NoText
                            ELSE FormatTime(r.modtime),
     contentRange       |-> NoText,
     contentLength      |-> NoLength,
     acceptRanges       |-> FALSE]

\* writeNotModified
NotModifiedHeaders(h) ==
    [h EXCEPT !.contentType = NoText,
              !.contentLength = NoLength,
              !.contentEncoding = FALSE,
              !.lastModified = IF h.etag # NoText THEN NoText ELSE @]

Response(status, h, body, pre, parsed) ==
    [status |-> status, header |-> h, body |-> body,
     by |-> pre.by, evaluated |-> pre.evaluated,
     rangeReq |-> pre.rangeHeader, parsed |-> parsed]

\* http.Error: the Content-Type of the error text, the status, the text.
TextPlain ==
    << "t", "e", "x", "t", "/", "p", "l", "a", "i", "n", ";", " ",
       "c", "h", "a", "r", "s", "e", "t", "=", "u", "t", "f", "-", "8"
       >>

Error(h, msg, code, pre, parsed) ==
    Response(code, [h EXCEPT !.contentType = TextPlain], ErrorBody(msg),
             pre, parsed)

\* On a no-overlap error an empty resource ignores the Range header.
IgnoreNoOverlapNever(err, size) == FALSE

IgnoreNoOverlap(err, size) == err = ErrNoOverlap /\ size = 0

RangeErrorStatusBadRequest(err) == IF err = ErrNoOverlap THEN 416 ELSE 400

\* The status of the switch on parseRange's error: the no-overlap case
\* falls through to the default case.
RangeErrorStatus(err) == 416

\* The part of serveContent after a successful size: Range handling and
\* delivery. h carries the Content-Type already.
Deliver(r, h, pre, ctype) ==
    LET size == r.size
        sent(code, hh, sendSize, body) ==
            Response(code,
                     [hh EXCEPT !.acceptRanges = TRUE,
                                !.contentLength =
                                    IF hh.contentEncoding THEN @ ELSE sendSize],
                     IF r.method = "HEAD" THEN NoBody ELSE body,
                     pre, TRUE)
        final(code, hh, sendSize, kind, parts) ==
            sent(code, hh, sendSize, ContentBody(kind, parts))
        multi(ranges, sendSize) ==
            sent(206, [h EXCEPT !.contentType = MultipartType \o Boundary],
                 sendSize,
                 IF r.seekFail = "range"
                 THEN MultipartBody("aborted", <<>>,
                                    AbortedOutput(ranges, ctype, size), sendSize)
                 ELSE MultipartBody("multipart", ranges,
                                    ProducerOutput(ranges, TRUE, ctype, size),
                                    sendSize))
        Send(ranges) ==
            IF Len(ranges) = 1
            THEN IF r.seekFail = "range"
                 THEN Error(h, r.seekErr, 416, pre, TRUE)
                 ELSE final(206,
                            [h EXCEPT !.contentRange = contentRange(ranges[1], size)],
                            ranges[1].length, "content", ranges)
            ELSE IF Len(ranges) > 1
            THEN \* when the producer goroutine fails on its first seek the
                 \* status and headers are sent and the copy ends early
                 multi(ranges, rangesMIMESize(ranges, ctype, size))
            ELSE final(200, h, size, "content",
                       IF size = 0 THEN <<>> ELSE <<httpRange(0, size)>>)
        Parsed(pr) ==
            IF pr.err = ErrNoOverlap /\ ~IgnoreNoOverlap(pr.err, size)
            THEN Error([h EXCEPT !.contentRange = UnsatisfiedRange(size)],
                       pr.err, RangeErrorStatus(pr.err), pre, TRUE)
            ELSE IF pr.err = ErrInvalid
            THEN Error(h, pr.err, RangeErrorStatus(pr.err), pre, TRUE)
            ELSE Send(IF pr.err = ErrNil /\ sumRangesSize(pr.ranges) <= size
                      THEN pr.ranges ELSE <<>>)
    IN  IF r.seekFail = "size"
        THEN Error(h, "seeker can't seek", 500, pre, FALSE)
        ELSE Parsed(parseRange(pre.rangeHeader, size))

\* serveContent. As serveFile calls it sizeFunc returns the size of Stat; as
\* ServeContent calls it sizeFunc seeks to the end and back, and seekFail =
\* "size" is one of the two seeks failing.
serveContent(r) ==
    LET Checked(h0, pre) ==
            IF pre.done
            THEN Response(pre.status,
                          IF pre.status = 304 THEN NotModifiedHeaders(h0) ELSE h0,
                          NoBody, pre, FALSE)
            ELSE IF h0.contentType # NoText
            THEN Deliver(r, h0, pre, h0.contentType)
            ELSE IF r.extKnown
            THEN Deliver(r, [h0 EXCEPT !.contentType = ExtensionType], pre,
                         ExtensionType)
            ELSE \* sniffing: read up to 512 bytes, then rewind
                 IF r.seekFail = "rewind"
                 THEN Error(h0, "seeker can't seek", 500, pre, FALSE)
                 ELSE Deliver(r, [h0 EXCEPT !.contentType = OctetStream], pre,
                              OctetStream)
    IN  Checked(HeadersBefore(r), checkPreconditions(r))

\* ------------------------------------------------------------------------
\* Range header texts fed to the parser
\* ------------------------------------------------------------------------

Dash == <<"-">>

Comma == <<",">>

\* A numeral beyond the int64 range (twenty nines).
BigNumeral == [i \in 1..(Len(MaxInt64Digits) + 1) |-> "9"]

\* The three spec forms of RFC 7233 over the numbers of the model.
StartEndText(a, b) == FormatInt(a) \o Dash \o FormatInt(b)

StartText(a) == FormatInt(a) \o Dash

SuffixText(n) == Dash \o FormatInt(n)

FormSpecs ==
    {StartEndText(a, b) : a \in Nums, b \in Nums}
        \cup {StartText(a) : a \in Nums}
        \cup {SuffixText(n) : n \in Nums}

\* Specs that are not of the three forms, or carry a numeral no int64 holds.
MalformedSpecs ==
    { <<"x">>, <<"1">>, Dash, <<"-", "-", "1">>, <<"-", "x">>,
      <<"1", "-", "x">>, <<"x", "-", "1">>, <<"1", "-", "-", "1">>,
      BigNumeral \o Dash, Dash \o BigNumeral, <<"0">> \o Dash \o BigNumeral }

\* Specs the parser accepts although they are written unusually.
OddSpecs ==
    { <<>>, <<" ", "1", " ", "-", " ", "2", " ">>, <<"+", "1", "-", "2">>,
      <<"-", "+", "1">>, <<"0", "1", "-", "0", "2">> }

AllSpecs == FormSpecs \cup MalformedSpecs \cup OddSpecs

\* The second spec of a two-spec header.
SecondSpecs ==
    {StartEndText(a, b) : a \in {0, MaxSize + 1}, b \in {0, MaxSize + 1}}
        \cup {StartText(0), StartText(MaxSize + 1), SuffixText(1), SuffixText(0)}
        \cup {<<"x">>, <<"1", "-", "0">>, <<>>}

RangeHeader(spec) == BytesPrefix \o spec

RangeHeader2(s1, s2) == BytesPrefix \o s1 \o Comma \o s2

RangeTexts ==
    { <<>>, <<"0", "-", "1">>, <<"B", "y", "t", "e", "s", "=", "0", "-", "1">>,
      <<"i", "t", "e", "m", "s", "=", "0", "-", "1">> }
        \cup {RangeHeader(s) : s \in AllSpecs}
        \cup {RangeHeader2(s1, s2) : s1 \in AllSpecs, s2 \in SecondSpecs}

\* ------------------------------------------------------------------------
\* Requests served in Spec
\* ------------------------------------------------------------------------

Methods == {"GET", "HEAD", "POST"}

Star == <<"*">>

Junk == <<"x">>

TagX == <<Quote, "x", Quote>>

TagY == <<Quote, "y", Quote>>

WeakX == WeakPrefix \o TagX

\* A two-element header list "a, b".
List2(a, b) == a \o <<",", " ">> \o b

ETags == {NoText, TagX, WeakX}

IfMatchTexts ==
    {NoText, Star, TagX, TagY, WeakX, List2(TagY, TagX), List2(TagY, Star),
     Junk, <<" ">>}

IfNoneMatchTexts ==
    {NoText, Star, TagX, WeakX, TagY, List2(TagY, WeakX), List2(Junk, TagX), Junk}

IfRangeTexts ==
    {NoText, TagX, WeakX, TagY, HTTPDate(0), HTTPDate(1), HTTPDate(2), Junk}

\* Modification times: none, the epoch, one second, one second and a tick,
\* two seconds.
ModTimes == {ZeroTime, 0, TicksPerSecond, TicksPerSecond + 1, 2 * TicksPerSecond}

SeekFailures == {"none", "size", "rewind", "range"}

OneByte == RangeHeader(StartEndText(0, 0))

TwoRanges == RangeHeader2(StartEndText(0, 0), StartEndText(1, 1))

Request(method, im, ius, inm, ims, ir, range, etag, modtime, size, env) ==
    [method |-> method, ifMatch |-> im, ifUnmodifiedSince |-> ius,
     ifNoneMatch |-> inm, ifModifiedSince |-> ims, ifRange |-> ir,
     range |-> range, wEtag |-> etag, modtime |-> modtime, size |-> size,
     dl |-> env.dl, extKnown |-> env.extKnown, seekFail |-> env.seekFail,
     seekErr |-> env.seekErr, wEncoding |-> env.wEncoding]

\* The texts of the error a failing Seek returns.
SeekErrors == {"invalid argument", "bad file descriptor"}

Env(dl, extKnown, seekFail, wEncoding) ==
    [dl |-> dl, extKnown |-> extKnown, seekFail |-> seekFail,
     seekErr |-> "invalid argument", wEncoding |-> wEncoding]

PlainEnv == Env(FALSE, TRUE, "none", FALSE)

\* Requests that exercise If-Match and If-Unmodified-Since, the later
\* headers in a few combinations.
LaterHeaders ==
    { <<NoText, NoText, NoText, NoText>>,
      <<Star, HTTPDate(2), TagY, OneByte>>,
      <<TagY, HTTPDate(0), HTTPDate(1), TwoRanges>>,
      <<NoText, NoText, NoText, OneByte>> }

MatchRequests ==
    { Request(m, im, ius, l[1], l[2], l[3], l[4], etag, mt, 2, PlainEnv) :
        m \in Methods, im \in IfMatchTexts,
        ius \in {NoText, HTTPDate(1), Junk}, l \in LaterHeaders,
        etag \in ETags, mt \in ModTimes }

\* Requests that exercise If-None-Match and If-Modified-Since.
EarlierHeaders ==
    { <<NoText, NoText>>, <<Star, NoText>>, <<NoText, HTTPDate(2)>> }

NoneMatchRequests ==
    { Request(m, e[1], e[2], inm, ims, l[1], l[2], etag, mt, 2, PlainEnv) :
        m \in Methods, e \in EarlierHeaders, inm \in IfNoneMatchTexts,
        ims \in {NoText, HTTPDate(1), Junk},
        l \in {<<NoText, NoText>>, <<TagY, OneByte>>},
        etag \in ETags, mt \in ModTimes }

\* Requests that exercise If-Range against the Range header.
Envs ==
    { PlainEnv, Env(TRUE, FALSE, "none", FALSE), Env(FALSE, FALSE, "rewind", FALSE),
      Env(FALSE, FALSE, "range", TRUE) }

IfRangeRequests ==
    { Request(m, NoText, NoText, NoText, NoText, ir, range, etag, mt, size, env) :
        m \in Methods, ir \in IfRangeTexts,
        range \in {NoText, OneByte, TwoRanges, RangeHeader(StartText(MaxSize + 1)),
                   RangeHeader(Junk)},
        etag \in ETags, mt \in {ZeroTime, 0, TicksPerSecond + 1},
        size \in {0, 2}, env \in Envs }

\* Requests that exercise the Range engine: every single-spec header and
\* some two-spec headers over every size.
FirstSpecs ==
    { StartEndText(0, 0), StartText(MaxSize + 1), SuffixText(1), Junk,
      StartEndText(1, 0), BigNumeral \o Dash }

ServedRangeTexts ==
    {NoText, <<"0", "-", "1">>}
        \cup {RangeHeader(s) : s \in AllSpecs}
        \cup {RangeHeader2(s1, s2) : s1 \in FirstSpecs, s2 \in SecondSpecs}

RangeRequests ==
    { Request(m, NoText, NoText, NoText, NoText, ir, range, TagX, ZeroTime, size,
              Env(FALSE, TRUE, sf, FALSE)) :
        m \in Methods, ir \in {NoText, TagX, TagY}, range \in ServedRangeTexts,
        size \in Sizes, sf \in {"none", "range"} }

\* Requests served with a content that fails to seek: when its size is taken
\* (through ServeContent), when it is rewound after sniffing, or when it is
\* positioned at a range start.
SeekRequests ==
    { [Request(m, NoText, NoText, NoText, NoText, NoText, range, TagX, ZeroTime,
               size, Env(FALSE, ek, sf, FALSE)) EXCEPT !.seekErr = t] :
        m \in Methods, range \in {NoText, OneByte, TwoRanges}, size \in Sizes,
        ek \in BOOLEAN, sf \in {"size", "rewind", "range"}, t \in SeekErrors }

RequestFamilies ==
    << MatchRequests, NoneMatchRequests, IfRangeRequests, RangeRequests,
       SeekRequests >>

\* ------------------------------------------------------------------------
\* State
\* ------------------------------------------------------------------------

VARIABLES
    prIn,    \* the arguments (s, size) of the parseRange call under test
    prOut,   \* its result, NotCalled before the call
    req,     \* the request being served and the resource it names
    resp,    \* the response written, NoResponse before the handler ran
    listing, \* the directory handed to dirList and what dirList wrote
    archive, \* the subtree handed to TarDir or ZipDir and the stream written
    trail,   \* the URL paths a client following redirects has requested
    run,     \* the handler and the producer goroutine of a multi-range response
    opening  \* the name handed to ioFS.Open, the file system and the result

vars == <<prIn, prOut, req, resp, listing, archive, trail, run, opening>>

NoTrail == <<>>

NoRun ==
    [handler |-> "none", producer |-> "none", method |-> "none",
     n |-> 0, chunks |-> 0, failAt |-> 0, i |-> 0, k |-> 0,
     offered |-> FALSE, pending |-> FALSE, rdClosed |-> FALSE, wrClosed |-> FALSE,
     sendSize |-> 0, sent |-> 0, clientFailed |-> FALSE,
     fileClosed |-> FALSE, lateAccess |-> FALSE, reason |-> "none"]

NoOpening == [name |-> "none"]

NoListing == [out |-> "none"]

NoArchive == [format |-> "none"]

NotCalled == [ranges |-> <<>>, err |-> "not called"]

NoRequest == [method |-> "none"]

NoResponse == [status |-> 0]

NoCall == [s |-> <<>>, size |-> 0]

\* ------------------------------------------------------------------------
\* SpecRange: parseRange applied to every header text and size of the model
\* ------------------------------------------------------------------------

InitRange ==
    /\ prIn \in [s : RangeTexts, size : Sizes]
    /\ prOut = NotCalled
    /\ req = NoRequest
    /\ resp = NoResponse
    /\ listing = NoListing
    /\ archive = NoArchive
    /\ trail = NoTrail
    /\ run = NoRun
    /\ opening = NoOpening

CallParseRange ==
    /\ prOut = NotCalled
    /\ prOut' = parseRange(prIn.s, prIn.size)
    /\ UNCHANGED <<prIn, req, resp, listing, archive, trail, run, opening>>

NextRange == CallParseRange

SpecRange == InitRange /\ [][NextRange]_vars

\* ------------------------------------------------------------------------
\* Spec: serveContent answers one request
\* ------------------------------------------------------------------------

Init ==
    /\ prIn = NoCall
    /\ prOut = NotCalled
    /\ req = NoRequest
    /\ resp = NoResponse
    /\ listing = NoListing
    /\ archive = NoArchive
    /\ trail = NoTrail
    /\ run = NoRun
    /\ opening = NoOpening

ServeContent ==
    /\ req = NoRequest
    /\ \E i \in DOMAIN RequestFamilies : \E r \in RequestFamilies[i] :
           /\ req' = r
           /\ resp' = serveContent(r)
    /\ UNCHANGED <<prIn, prOut, listing, archive, trail, run, opening>>

Next == ServeContent

Spec == Init /\ [][Next]_vars

\* ------------------------------------------------------------------------
\* Properties of parseRange (checked under SpecRange)
\* ------------------------------------------------------------------------

Max(a, b) == IF a >= b THEN a ELSE b

Min(a, b) == IF a <= b THEN a ELSE b

Called == prOut # NotCalled

OneRange(start, length) == [ranges |-> <<httpRange(start, length)>>, err |-> ErrNil]

\* C6: for every size and all a, b with 0 <= a <= b < size,
\* parseRange("bytes=a-b", size) returns without error exactly one range
\* with start = a and length = b - a + 1.
C6_StartEndParsed ==
    \A a \in Nums, b \in Nums :
        (/\ Called
         /\ prIn.s = RangeHeader(StartEndText(a, b))
         /\ a <= b /\ b < prIn.size)
            => prOut = OneRange(a, b - a + 1)

C6_Witness ==
    /\ prIn = [s |-> RangeHeader(StartEndText(1, 2)), size |-> MaxSize]
    /\ prOut = OneRange(1, 2)

\* C7 (as written): for every size S and every non-negative integer N,
\* parseRange("bytes=-N", S) returns without error exactly one range with
\* start = max(0, S - N) and length = S - start. BigNumeral is a
\* non-negative integer larger than every size, so its range would be the
\* whole resource.
C7_SuffixEveryN ==
    Called =>
        /\ \A n \in Nums :
               prIn.s = RangeHeader(SuffixText(n))
                   => prOut = OneRange(Max(0, prIn.size - n),
                                       prIn.size - Max(0, prIn.size - n))
        /\ prIn.s = RangeHeader(Dash \o BigNumeral)
               => prOut = OneRange(0, prIn.size)

\* The failing input of C7: a suffix-length beyond the int64 range is
\* rejected as an invalid range.
C7_Witness ==
    /\ Called
    /\ prIn.s = RangeHeader(Dash \o BigNumeral)
    /\ prOut = [ranges |-> <<>>, err |-> ErrInvalid]

\* C8 (as written): every range parseRange returns without error has
\* start >= 0, length >= 1 and start + length <= size.
C8_PositiveLength ==
    (Called /\ prOut.err = ErrNil) =>
        \A i \in 1..Len(prOut.ranges) :
            /\ prOut.ranges[i].start >= 0
            /\ prOut.ranges[i].length >= 1
            /\ prOut.ranges[i].start + prOut.ranges[i].length <= prIn.size

\* What parseRange guarantees in place of C8: every range it returns
\* without error has start >= 0, length >= 0 and start + length <= size; a
\* range of length 0 starts at the size, and a single-spec header yields
\* one exactly when it is a suffix spec `-N` with min(N, size) = 0; the
\* forms `a-b` and `a-` always yield length >= 1.
C8_RangeWithinSize ==
    (Called /\ prOut.err = ErrNil) =>
        /\ \A i \in 1..Len(prOut.ranges) :
               /\ prOut.ranges[i].start >= 0
               /\ prOut.ranges[i].length >= 0
               /\ prOut.ranges[i].start + prOut.ranges[i].length <= prIn.size
               /\ prOut.ranges[i].length = 0 => prOut.ranges[i].start = prIn.size
        /\ \A a \in Nums, b \in Nums :
               prIn.s \in {RangeHeader(StartEndText(a, b)), RangeHeader(StartText(a))}
                   => \A i \in 1..Len(prOut.ranges) : prOut.ranges[i].length >= 1
        /\ \A n \in Nums :
               prIn.s = RangeHeader(SuffixText(n))
                   => /\ Len(prOut.ranges) = 1
                      /\ prOut.ranges[1].length = Min(n, prIn.size)

\* The failing input of C8: `bytes=-0` yields a range of length 0.
C8_Witness ==
    /\ prIn = [s |-> RangeHeader(SuffixText(0)), size |-> 2]
    /\ prOut = OneRange(2, 0)

\* ------------------------------------------------------------------------
\* Properties of serveContent (checked under Spec)
\* ------------------------------------------------------------------------

Served == resp # NoResponse

\* The elements a header text of the model lists, read off its text.
Elements == {Star, TagX, TagY, WeakX, Junk}

Tags == {TagX, TagY, WeakX}

Listed(h) ==
    {e \in Elements :
        h = e \/ \E o \in Elements : h = List2(e, o) \/ h = List2(o, e)}

\* The listed elements that have only valid ETags before them.
ListedAfterTags(h) ==
    {e \in Elements : h = e \/ \E o \in Elements : h = List2(e, o)}
        \cup {e \in Elements : \E o \in Tags : h = List2(o, e)}

IsWeakTag(e) == e[1] = "W"

StrongEqual(e, etag) == e \in Tags /\ e = etag /\ ~IsWeakTag(e)

StripWeak(e) == IF e # <<>> /\ IsWeakTag(e) THEN Tail(Tail(e)) ELSE e

WeakEqual(e, etag) == e \in Tags /\ etag # NoText /\ StripWeak(e) = StripWeak(etag)

PassedMatchStep == resp.by \notin {"If-Match", "If-Unmodified-Since"}

PassedPreconditions == resp.by = "none"

\* The header text is an HTTP date of the model, and its second.
IsDate(h) == \E s \in 0..9 : h = HTTPDate(s)

SecondOf(h) == CHOOSE s \in 0..9 : h = HTTPDate(s)

\* The modification time is usable: not the zero value, not the epoch.
Usable(mt) == mt # ZeroTime /\ mt # 0

WholeSeconds(mt) == mt \div TicksPerSecond

FullBody ==
    IF req.method = "HEAD" THEN NoBody
    ELSE ContentBody("content",
                     IF req.size = 0 THEN <<>> ELSE <<httpRange(0, req.size)>>)

WithoutIfUnmodifiedSince(r) == [r EXCEPT !.ifUnmodifiedSince = NoText]

\* C3: If-Unmodified-Since is evaluated only when If-Match is absent; then
\* the If-Match / If-Unmodified-Since step fails with 412 exactly when the
\* header parses as a date, the modification time is usable and, truncated
\* to whole seconds, is strictly after the header time; when If-Match is
\* present, the response is the one of the same request without
\* If-Unmodified-Since.
C3_IfUnmodifiedSince ==
    Served =>
        /\ "If-Unmodified-Since" \in resp.evaluated => req.ifMatch = NoText
        /\ req.ifMatch = NoText =>
               ((resp.status = 412 /\ ~PassedMatchStep)
                   <=> /\ IsDate(req.ifUnmodifiedSince)
                       /\ Usable(req.modtime)
                       /\ WholeSeconds(req.modtime) > SecondOf(req.ifUnmodifiedSince))
        /\ req.ifMatch # NoText =>
               /\ resp.by # "If-Unmodified-Since"
               /\ resp = serveContent(WithoutIfUnmodifiedSince(req))

C3_Witness ==
    /\ Served
    /\ req.ifMatch = NoText
    /\ req.ifUnmodifiedSince = HTTPDate(1)
    /\ req.modtime = 2 * TicksPerSecond
    /\ resp.status = 412 /\ resp.by = "If-Unmodified-Since"

WithoutIfModifiedSince(r) == [r EXCEPT !.ifModifiedSince = NoText]

\* C4: If-Modified-Since decides only when If-None-Match is absent and the
\* method is GET or HEAD; for such a request that passed the If-Match /
\* If-Unmodified-Since step the response is 304 exactly when the header
\* parses, the modification time is usable and, truncated to seconds, is
\* not strictly after the header time; when If-None-Match is present or
\* the method is neither GET nor HEAD, the response is the one of the same
\* request without If-Modified-Since.
C4_IfModifiedSince ==
    Served =>
        /\ resp.by = "If-Modified-Since" =>
               req.ifNoneMatch = NoText /\ IsGetOrHead(req)
        /\ (PassedMatchStep /\ req.ifNoneMatch = NoText /\ IsGetOrHead(req)) =>
               (resp.status = 304
                   <=> /\ IsDate(req.ifModifiedSince)
                       /\ Usable(req.modtime)
                       /\ WholeSeconds(req.modtime) <= SecondOf(req.ifModifiedSince))
        /\ (req.ifNoneMatch # NoText \/ ~IsGetOrHead(req)) =>
               resp = serveContent(WithoutIfModifiedSince(req))

C4_Witness ==
    /\ Served
    /\ req.method = "GET"
    /\ req.ifNoneMatch = NoText
    /\ req.ifModifiedSince = HTTPDate(1)
    /\ req.modtime = TicksPerSecond + 1
    /\ resp.status = 304 /\ resp.by = "If-Modified-Since"

\* What C5 says makes the Range header honored.
IfRangeAllows ==
    \/ req.ifRange = NoText
    \/ \E e \in Tags : req.ifRange = e /\ StrongEqual(e, req.wEtag)
    \/ /\ IsDate(req.ifRange)
       /\ SecondOf(req.ifRange) = WholeSeconds(req.modtime)

Honored == resp.rangeReq = req.range

Dropped == resp.rangeReq = NoText

C9_NoOverlap ==
    (/\ Served
     /\ resp.parsed
     /\ resp.rangeReq # NoText
     /\ parseRange(resp.rangeReq, req.size).err = ErrNoOverlap)
        => IF req.size > 0
           THEN /\ resp.status = 416
                /\ resp.header.contentRange = UnsatisfiedRange(req.size)
           ELSE /\ resp.status = 200
                /\ resp.header.contentRange = NoText
                /\ resp.body = FullBody

C9_Witness ==
    /\ Served
    /\ req.range = RangeHeader(StartText(0)) /\ req.size = 0
    /\ req.method = "GET"
    /\ resp.parsed /\ resp.status = 200

C9_Witness416 ==
    /\ Served
    /\ req.range = RangeHeader(StartText(MaxSize)) /\ req.size = MaxSize
    /\ resp.status = 416
    /\ resp.header.contentRange = UnsatisfiedRange(MaxSize)

\* Range header texts that are malformed whatever the size: no `bytes=`
\* prefix, a spec without `-`, a non-integer or negative bound.
MalformedTexts ==
    { <<"0", "-", "1">>, RangeHeader(<<"1">>), RangeHeader(Junk),
      RangeHeader(<<"1", "-", "x">>), RangeHeader(<<"x", "-", "1">>),
      RangeHeader(<<"-", "-", "1">>), RangeHeader(<<"1", "-", "-", "1">>) }

\* Range header texts with end < start.
EndBeforeStart ==
    UNION { {RangeHeader(StartEndText(a, b)) : b \in 0..(a - 1)} : a \in Nums }

RangeMalformed == resp.rangeReq \in MalformedTexts \cup EndBeforeStart

ParsedRanges == parseRange(resp.rangeReq, req.size)

RECURSIVE TotalLength(_)
TotalLength(ranges) ==
    IF Len(ranges) = 0 THEN 0
    ELSE ranges[Len(ranges)].length
             + TotalLength(SubSeq(ranges, 1, Len(ranges) - 1))

\* C11: when the Range header parses without error and its ranges cover
\* more bytes together than the resource has, every range is dropped and the
\* answer is 200 with the full resource and Content-Length = size, never a
\* rejection; and in every 206 the ranges delivered cover at most size bytes.
C11_SumCheck ==
    Served /\ resp.parsed =>
        /\ ParsedRanges.err = ErrNil /\ TotalLength(ParsedRanges.ranges) > req.size
               => /\ resp.status = 200
                  /\ resp.body = FullBody
                  /\ resp.header.contentRange = NoText
                  /\ resp.header.contentLength = req.size
        /\ resp.status = 206
               => /\ ParsedRanges.err = ErrNil
                  /\ TotalLength(ParsedRanges.ranges) <= req.size
                  /\ req.method = "GET" /\ req.seekFail = "none"
                         => resp.body.parts = ParsedRanges.ranges

C11_Witness ==
    /\ Served /\ resp.parsed
    /\ req.method = "GET" /\ req.size = 2
    /\ req.range = RangeHeader2(StartEndText(0, 0), StartText(0))
    /\ TotalLength(ParsedRanges.ranges) = 3
    /\ resp.status = 200 /\ resp.header.contentLength = 2

\* The ranges serveContent is left with once the Range header is parsed
\* and the sum of the lengths is checked.
RemainingRanges ==
    IF ParsedRanges.err = ErrNil /\ TotalLength(ParsedRanges.ranges) <= req.size
    THEN ParsedRanges.ranges
    ELSE <<>>

\* "bytes first-last/size", written out from its three numbers.
RangeOfText(first, last, size) ==
    <<"b", "y", "t", "e", "s", " ">> \o FormatInt(first) \o <<"-">>
        \o FormatInt(last) \o <<"/">> \o FormatInt(size)

\* C12: when exactly one range remains, the answer to a GET whose reads
\* succeed is 206 with Content-Range "bytes start-(start+length-1)/size",
\* Content-Length = length and the resource's bytes [start, start+length) as
\* body; the response is never multipart.
C12_SingleRange ==
    /\ Served /\ resp.parsed
    /\ Len(RemainingRanges) = 1
    /\ req.method = "GET" /\ req.seekFail = "none"
    => /\ resp.status = 206
       /\ resp.header.contentRange =
              RangeOfText(RemainingRanges[1].start,
                          RemainingRanges[1].start + RemainingRanges[1].length - 1,
                          req.size)
       /\ resp.header.contentLength = RemainingRanges[1].length
       /\ resp.body = ContentBody("content", RemainingRanges)
       /\ ~HasPrefix(resp.header.contentType, MultipartType)

C12_Witness ==
    /\ Served /\ resp.parsed
    /\ req.method = "GET" /\ req.seekFail = "none" /\ req.size = 3
    /\ req.range = RangeHeader(StartEndText(1, 2))
    /\ resp.status = 206
    /\ resp.header.contentRange = <<"b", "y", "t", "e", "s", " ", "1", "-", "2", "/", "3">>
    /\ resp.header.contentLength = 2

\* The boundary token the Content-Type of a multipart response announces.
AnnouncedBoundary ==
    SubSeq(resp.header.contentType, Len(MultipartType) + 1,
           Len(resp.header.contentType))

\* The content type serveContent settles on for the request.
PartType ==
    IF req.dl \/ ~req.extKnown THEN OctetStream ELSE ExtensionType

\* The resource's bytes [start, start + length).
ResourceBytes(start, length) ==
    [k \in 1..length |-> DigitSeq[((start + k - 1) % 10) + 1]]

\* Part k and all later parts of a multipart body, then the terminator.
RECURSIVE PartsFrom(_, _)
PartsFrom(ranges, k) ==
    IF k > Len(ranges)
    THEN CRLF \o DashDash \o AnnouncedBoundary \o DashDash \o CRLF
    ELSE PartHeader(k = 1, ranges[k], PartType, req.size, AnnouncedBoundary)
             \o (IF ranges[k].length = 0 THEN <<>>
                 ELSE ResourceBytes(ranges[k].start, ranges[k].length))
             \o PartsFrom(ranges, k + 1)

\* C13: when more than one range remains, the answer to a GET whose reads
\* succeed is 206 with Content-Type "multipart/byteranges; boundary=<token>";
\* the body is, for each range in request order, a part header and exactly
\* length bytes from start, then the terminator; and the Content-Length that
\* rangesMIMESize computed in advance is the number of bytes the producer
\* writes.
C13_Multipart ==
    /\ Served /\ resp.parsed
    /\ Len(RemainingRanges) > 1
    /\ req.method = "GET" /\ req.seekFail = "none"
    => /\ resp.status = 206
       /\ HasPrefix(resp.header.contentType, MultipartType)
       /\ Len(AnnouncedBoundary) = BoundaryLen
       /\ resp.header.contentRange = NoText
       /\ resp.body.kind = "multipart"
       /\ resp.body.parts = RemainingRanges
       /\ resp.body.text = PartsFrom(RemainingRanges, 1)
       /\ resp.body.produced = Len(resp.body.text)
       /\ resp.header.contentLength = resp.body.produced

C13_Witness ==
    /\ Served /\ resp.parsed
    /\ req.method = "GET" /\ req.seekFail = "none" /\ req.size = 3
    /\ req.range = RangeHeader2(StartEndText(0, 0), SuffixText(1))
    /\ resp.status = 206
    /\ Len(resp.body.parts) = 2
    /\ resp.body.parts[1] = httpRange(0, 1) /\ resp.body.parts[2] = httpRange(2, 1)
    /\ resp.header.contentLength = Len(resp.body.text)
    /\ resp.header.contentLength > 2 * BoundaryLen

\* A header set with the boundary token of a multipart Content-Type left
\* out: the token is drawn anew for every response.
UpToBoundary(h) ==
    IF HasPrefix(h.contentType, MultipartType)
    THEN [h EXCEPT !.contentType = MultipartType]
    ELSE h

\* What the same request gets when its method is GET.
AsGet == serveContent([req EXCEPT !.method = "GET"])

\* C14: a HEAD request gets the status and the headers (Content-Length,
\* Content-Range, Content-Type up to the boundary token, Accept-Ranges,
\* Last-Modified) of the GET request with the same headers, and no content
\* byte is transmitted, single- and multi-range 206 included.
C14_HeadAsGet ==
    Served /\ req.method = "HEAD" =>
        /\ resp.status = AsGet.status
        /\ UpToBoundary(resp.header) = UpToBoundary(AsGet.header)
        /\ resp.status \in {200, 206, 304, 412} => resp.body = NoBody
        /\ resp.body # NoBody => resp.body = AsGet.body /\ resp.body.kind = "error"

C14_Witness ==
    /\ Served /\ req.method = "HEAD" /\ req.size = 3
    /\ req.range = RangeHeader2(StartEndText(0, 0), SuffixText(1))
    /\ resp.status = 206 /\ resp.body = NoBody
    /\ HasPrefix(resp.header.contentType, MultipartType)
    /\ resp.header.contentLength = AsGet.body.produced
    /\ AsGet.body.produced > 2 * BoundaryLen

\* ------------------------------------------------------------------------
\* URL paths and queries
\* ------------------------------------------------------------------------

Slash == <<"/">>

Dot == <<".">>

DotDot == <<".", ".">>

HasSuffix(s, p) ==
    Len(s) >= Len(p) /\ SubSeq(s, Len(s) - Len(p) + 1, Len(s)) = p

TrimSuffix(s, p) ==
    IF HasSuffix(s, p) THEN SubSeq(s, 1, Len(s) - Len(p)) ELSE s

\* strings.Contains(v, "..")
ContainsDots(v) == \E i \in 1..(Len(v) - 1) : v[i] = "." /\ v[i + 1] = "."

isSlashRune(c) == c = "/" \/ c = "\\"

\* strings.FieldsFunc(v, isSlashRune): the maximal runs of other characters.
RECURSIVE FieldsLoop(_, _, _)
FieldsLoop(v, field, fields) ==
    IF v = <<>>
    THEN IF field = <<>> THEN fields ELSE Append(fields, field)
    ELSE IF isSlashRune(Head(v))
    THEN FieldsLoop(Tail(v), <<>>,
                    IF field = <<>> THEN fields ELSE Append(fields, field))
    ELSE FieldsLoop(Tail(v), Append(field, Head(v)), fields)

FieldsFunc(v) == FieldsLoop(v, <<>>, <<>>)

containsDotDot(v) ==
    IF ~ContainsDots(v) THEN FALSE
    ELSE \E i \in 1..Len(FieldsFunc(v)) : FieldsFunc(v)[i] = DotDot

\* strings.Join(elems, "/")
RECURSIVE Join(_)
Join(elems) ==
    IF elems = <<>> THEN <<>>
    ELSE IF Len(elems) = 1 THEN elems[1]
    ELSE elems[1] \o Slash \o Join(Tail(elems))

\* path.Clean: the elements that remain once empty and "." elements are
\* dropped and each ".." has taken away the element before it.
RECURSIVE CleanLoop(_, _, _)
CleanLoop(elems, out, rooted) ==
    IF elems = <<>> THEN out
    ELSE IF Head(elems) = <<>> \/ Head(elems) = Dot
    THEN CleanLoop(Tail(elems), out, rooted)
    ELSE IF Head(elems) = DotDot
    THEN IF out # <<>> /\ out[Len(out)] # DotDot
         THEN CleanLoop(Tail(elems), SubSeq(out, 1, Len(out) - 1), rooted)
         ELSE IF rooted
         THEN CleanLoop(Tail(elems), out, rooted)
         ELSE CleanLoop(Tail(elems), Append(out, DotDot), rooted)
    ELSE CleanLoop(Tail(elems), Append(out, Head(elems)), rooted)

Clean(p) ==
    LET Joined(rooted, body) ==
            IF rooted THEN Slash \o body
            ELSE IF body = <<>> THEN Dot ELSE body
        Rooted(rooted) ==
            Joined(rooted, Join(CleanLoop(Split(p, "/"), <<>>, rooted)))
    IN  IF p = <<>> THEN Dot ELSE Rooted(p[1] = "/")

\* path.Base
RECURSIVE StripSlashes(_)
StripSlashes(p) ==
    IF p # <<>> /\ p[Len(p)] = "/"
    THEN StripSlashes(SubSeq(p, 1, Len(p) - 1))
    ELSE p

Base(p) ==
    LET Last(elems) == elems[Len(elems)]
        Stripped(q) == IF q = <<>> THEN Slash ELSE Last(Split(q, "/"))
    IN  IF p = <<>> THEN Dot ELSE Stripped(StripSlashes(p))

\* url.Values.Get on the raw query: the value of the first key=value pair
\* with the key, "" when there is none.
RECURSIVE GetLoop(_, _)
GetLoop(pairs, key) ==
    IF pairs = <<>> THEN <<>>
    ELSE IF Cut(Head(pairs), "=").before = key /\ Head(pairs) # <<>>
    THEN Cut(Head(pairs), "=").after
    ELSE GetLoop(Tail(pairs), key)

QueryGet(rawQuery, key) == GetLoop(Split(rawQuery, "&"), key)

\* ------------------------------------------------------------------------
\* dirList
\* ------------------------------------------------------------------------

\* The byte of each character that file names of the model are made of.
Byte ==
    [c \in {"#", "&", ".", "/", "?", "A", "a", "b", "d", "e", "f", "h", "i",
            "l", "m", "n", "p", "r", "s", "t", "v", "x", "z"} |->
        CASE c = "#" -> 35 [] c = "&" -> 38 [] c = "." -> 46 [] c = "/" -> 47
          [] c = "?" -> 63 [] c = "A" -> 65 [] c = "a" -> 97 [] c = "b" -> 98
          [] c = "d" -> 100 [] c = "e" -> 101 [] c = "f" -> 102
          [] c = "h" -> 104 [] c = "i" -> 105 [] c = "l" -> 108
          [] c = "m" -> 109 [] c = "n" -> 110 [] c = "p" -> 112
          [] c = "r" -> 114 [] c = "s" -> 115 [] c = "t" -> 116
          [] c = "v" -> 118 [] c = "x" -> 120 [] c = "z" -> 122]

\* The < of Go strings: byte-wise, a proper prefix first.
RECURSIVE Less(_, _)
Less(s, t) ==
    IF t = <<>> THEN FALSE
    ELSE IF s = <<>> THEN TRUE
    ELSE IF Head(s) # Head(t) THEN Byte[Head(s)] < Byte[Head(t)]
    ELSE Less(Tail(s), Tail(t))

InsertLast(sorted, e) == Append(sorted, e)

\* sort.Slice(dirs, less by name): the entries in ascending order of names.
RECURSIVE Insert(_, _)
Insert(sorted, e) ==
    IF sorted = <<>> THEN <<e>>
    ELSE IF Less(e.name, Head(sorted).name) THEN <<e>> \o sorted
    ELSE <<Head(sorted)>> \o Insert(Tail(sorted), e)

RECURSIVE SortByName(_)
SortByName(dirs) ==
    IF dirs = <<>> THEN <<>>
    ELSE Insert(SortByName(SubSeq(dirs, 1, Len(dirs) - 1)), dirs[Len(dirs)])

\* htmlReplacer.Replace
RECURSIVE htmlReplace(_)
htmlReplace(s) ==
    IF s = <<>> THEN <<>>
    ELSE (CASE Head(s) = "&" -> <<"&", "a", "m", "p", ";">>
            [] Head(s) = "<" -> <<"&", "l", "t", ";">>
            [] Head(s) = ">" -> <<"&", "g", "t", ";">>
            [] Head(s) = "\"" -> <<"&", "#", "3", "4", ";">>
            [] Head(s) = "'" -> <<"&", "#", "3", "9", ";">>
            [] OTHER -> <<Head(s)>>) \o htmlReplace(Tail(s))

\* url.URL{Path: name}.String() on the names of the model: `?` and `#`
\* are escaped, the other characters stand for themselves.
RECURSIVE EscapedPath(_)
EscapedPath(s) ==
    IF s = <<>> THEN <<>>
    ELSE (CASE Head(s) = "?" -> <<"%", "3", "F">>
            [] Head(s) = "#" -> <<"%", "2", "3">>
            [] OTHER -> <<Head(s)>>) \o EscapedPath(Tail(s))

ThumbQuery == <<"?", "t", "h", "u", "m", "b", "=", "t", "r", "u", "e">>

DirImage == <<"d", "a", "t", "a", ":", "i", "m", "a", "g", "e", "/", "p", "n", "g">>

IsHidden == "is-hidden"

Shown == ""

\* dirs.isDir(i)
isDir(e) == e.isDir

\* One pass of the loop of dirList: the card written for one entry.
Card(e) ==
    LET Named(name) ==
            [image   |-> IF isDir(e) THEN DirImage
                         ELSE IF HasSuffix(name, Slash) THEN EscapedPath(name)
                         ELSE EscapedPath(name) \o ThumbQuery,
             href    |-> EscapedPath(name),
             name    |-> htmlReplace(name),
             tarBtn  |-> IF HasSuffix(htmlReplace(name), Slash) THEN Shown ELSE IsHidden,
             dlBtn   |-> IF HasSuffix(htmlReplace(name), Slash) THEN IsHidden ELSE Shown,
             mpvBtn  |-> IF HasSuffix(htmlReplace(name), Slash) THEN IsHidden ELSE Shown]
    IN  Named(IF isDir(e) THEN e.name \o Slash ELSE e.name)

TextHTML ==
    <<"t", "e", "x", "t", "/", "h", "t", "m", "l", ";", " ",
      "c", "h", "a", "r", "s", "e", "t", "=", "u", "t", "f", "-", "8">>

\* dirList: f is a directory whose enumeration (ReadDir when the file has
\* it, Readdir otherwise) returns list, or fails.
dirList(hasReadDir, list, failed) ==
    LET Cards(sorted) == [i \in 1..Len(sorted) |-> Card(sorted[i])]
    IN  IF failed
        THEN [status |-> 500, contentType |-> TextPlain,
              msg |-> "Error reading directory", cards |-> <<>>,
              api |-> IF hasReadDir THEN "ReadDir" ELSE "Readdir"]
        ELSE [status |-> 200, contentType |-> TextHTML,
              msg |-> "", cards |-> Cards(SortByName(list)),
              api |-> IF hasReadDir THEN "ReadDir" ELSE "Readdir"]

\* ------------------------------------------------------------------------
\* SpecList: dirList applied to the directories of the model
\* ------------------------------------------------------------------------

MaxChildren == 3

ChildNames ==
    { <<"A">>, <<"a", ".", "t", "x", "t">>, <<"b", ".", "t", "x", "t">>,
      <<"a", "?", "b">>, <<"a", "&", "b">> }

\* What an enumeration of a directory can return: its children, each once,
\* in any order.
Enumerations ==
    UNION { { l \in [1..n -> [name : ChildNames, isDir : BOOLEAN]] :
                \A i, j \in 1..n : i # j => l[i].name # l[j].name } :
            n \in 0..MaxChildren }

NotListed == [status |-> 0]

InitList ==
    /\ prIn = NoCall
    /\ prOut = NotCalled
    /\ req = NoRequest
    /\ resp = NoResponse
    /\ listing \in [hasReadDir : BOOLEAN, list : Enumerations,
                    failed : BOOLEAN, out : {NotListed}]
    /\ archive = NoArchive
    /\ trail = NoTrail
    /\ run = NoRun
    /\ opening = NoOpening

CallDirList ==
    /\ listing.out = NotListed
    /\ listing' = [listing EXCEPT
                       !.out = dirList(listing.hasReadDir, listing.list,
                                       listing.failed)]
    /\ UNCHANGED <<prIn, prOut, req, resp, archive, trail, run, opening>>

NextList == CallDirList

SpecList == InitList /\ [][NextList]_vars

\* ------------------------------------------------------------------------
\* Properties of dirList (checked under SpecList)
\* ------------------------------------------------------------------------

DirListed == listing.out # NotListed /\ ~listing.failed

\* s comes before t in byte-wise order.
Before(s, t) ==
    \E k \in 1..Len(t) :
        /\ k <= Len(s) + 1
        /\ \A i \in 1..(k - 1) : s[i] = t[i]
        /\ k <= Len(s) => Byte[s[k]] < Byte[t[k]]

\* The link a card carries for a child.
LinkOf(child) ==
    EscapedPath(IF child.isDir THEN child.name \o <<"/">> ELSE child.name)

\* The positions of the cards written for a child.
CardsOf(child) ==
    {i \in 1..Len(listing.out.cards) : listing.out.cards[i].href = LinkOf(child)}

EndsInSlash(s) == s # <<>> /\ s[Len(s)] = "/"

\* C18: with either enumeration API dirList writes exactly one record per
\* child, in ascending byte-wise order of the names, and a child gets the
\* trailing `/` and the directory affordances iff it is a directory; the two
\* APIs give the same records.
C18_SortedListing ==
    DirListed =>
        /\ Len(listing.out.cards) = Len(listing.list)
        /\ \A k \in 1..Len(listing.list) :
               /\ Cardinality(CardsOf(listing.list[k])) = 1
               /\ \A i \in CardsOf(listing.list[k]) :
                      /\ EndsInSlash(listing.out.cards[i].name) <=> listing.list[k].isDir
                      /\ listing.out.cards[i].tarBtn = "" <=> listing.list[k].isDir
                      /\ listing.out.cards[i].image = DirImage <=> listing.list[k].isDir
                      /\ listing.out.cards[i].dlBtn = "" <=> ~listing.list[k].isDir
        /\ \A a, b \in 1..Len(listing.list) :
               \A i \in CardsOf(listing.list[a]), j \in CardsOf(listing.list[b]) :
                   i < j => Before(listing.list[a].name, listing.list[b].name)
        /\ listing.out.cards =
               dirList(~listing.hasReadDir, listing.list, FALSE).cards

C18_Witness ==
    /\ DirListed
    /\ ~listing.hasReadDir
    /\ listing.list = << [name |-> <<"b", ".", "t", "x", "t">>, isDir |-> FALSE],
                         [name |-> <<"A">>, isDir |-> TRUE],
                         [name |-> <<"a", ".", "t", "x", "t">>, isDir |-> FALSE] >>
    /\ Len(listing.out.cards) = 3
    /\ listing.out.cards[1].name = <<"A", "/">>
    /\ listing.out.cards[2].name = <<"a", ".", "t", "x", "t">>
    /\ listing.out.cards[3].name = <<"b", ".", "t", "x", "t">>

\* ------------------------------------------------------------------------
\* The native file system, and TarDir and ZipDir walking it
\* ------------------------------------------------------------------------

\* A disk maps the clean absolute path of each file to what Lstat reports
\* of it (kind, size), whether os.Open (a regular file) or os.ReadDir (a
\* directory) succeeds on it, and the number of bytes a later read of it
\* gives.
Node(kind, size, actual, ok) ==
    [kind |-> kind, size |-> size, actual |-> actual, ok |-> ok,
     modtime |-> TicksPerSecond]

\* filepath.Dir of a clean absolute path.
Parent(p) ==
    LET Cut1(i) == IF i <= 1 THEN Slash ELSE SubSeq(p, 1, i - 1)
    IN  Cut1(CHOOSE i \in 1..Len(p) :
                 p[i] = "/" /\ \A j \in (i + 1)..Len(p) : p[j] # "/")

\* os.ReadDir(p): the entries of the directory, sorted by file name.
RECURSIVE SortedPaths(_)
SortedPaths(S) ==
    LET Rest(m) == <<m>> \o SortedPaths(S \ {m})
    IN  IF S = {} THEN <<>>
        ELSE Rest(CHOOSE q \in S : \A r \in S \ {q} : Less(Base(q), Base(r)))

ReadDir(disk, p) ==
    SortedPaths({q \in DOMAIN disk : q # Slash /\ Parent(q) = p})

\* filepath.WalkDir: the paths in the order the walk hands them to its
\* function, as long as the function returns nil.
RECURSIVE walkDir(_, _)
RECURSIVE walkAll(_, _)
walkDir(disk, p) ==
    IF disk[p].kind = "dir" /\ disk[p].ok
    THEN <<p>> \o walkAll(disk, ReadDir(disk, p))
    ELSE <<p>>

walkAll(disk, ps) ==
    IF ps = <<>> THEN <<>>
    ELSE walkDir(disk, Head(ps)) \o walkAll(disk, Tail(ps))

\* filepath.Rel(dirpath, p) for a path p the walk of dirpath visits.
Rel(dirpath, p) ==
    IF p = dirpath THEN Dot
    ELSE IF dirpath = Slash THEN SubSeq(p, 2, Len(p))
    ELSE SubSeq(p, Len(dirpath) + 2, Len(p))

ErrWriteTooLong == "archive/tar: write too long"

ErrMismatch == "mismatch of size"

ErrOpen == "open failed"

ErrReadDir == "readdir failed"

ErrLstat == "lstat failed"

\* io.Copy(tw, f) after tw.WriteHeader(h): the tar writer takes at most the
\* bytes the header declares.
TarCopy(declared, actual) ==
    [n   |-> IF actual > declared THEN declared ELSE actual,
     err |-> IF actual > declared THEN ErrWriteTooLong ELSE ErrNil]

\* io.Copy(zf, f) after zw.CreateHeader(h): every byte read is written.
ZipCopy(declared, actual) == [n |-> actual, err |-> ErrNil]

\* One archive entry of the stream: the name, the size its metadata
\* declares (the tar header written before the content; the zip data
\* descriptor and directory record written after it) and the content bytes
\* that follow.
Entry(format, name, size, n) ==
    [name |-> name, declared |-> IF format = "tar" THEN size ELSE n,
     content |-> n]

\* The value the walk function returns after the copy.
copyError(size, copied) ==
    IF size # copied.n THEN ErrMismatch ELSE copied.err

IsRegularOrLink(node) == node.kind \in {"regular", "symlink"}

\* info.Mode().IsRegular()
IsRegular(node) == node.kind = "regular"

\* The walk function applied to the paths of the walk in turn, until it
\* returns an error.
RECURSIVE Visit(_, _, _, _, _)
Visit(format, disk, dirpath, ps, entries) ==
    LET Stop(err) == [entries |-> entries, err |-> err]
        Copied(p, copied) ==
            IF copyError(disk[p].size, copied) # ErrNil
            THEN [entries |-> Append(entries,
                                     Entry(format, Rel(dirpath, p),
                                           disk[p].size, copied.n)),
                  err |-> copyError(disk[p].size, copied)]
            ELSE Visit(format, disk, dirpath, Tail(ps),
                       Append(entries,
                              Entry(format, Rel(dirpath, p), disk[p].size,
                                    copied.n)))
        File(p) ==
            IF ~IsRegular(disk[p])
            THEN IF disk[p].kind = "dir" /\ ~disk[p].ok
                 THEN Stop(ErrReadDir)
                 ELSE Visit(format, disk, dirpath, Tail(ps), entries)
            ELSE IF ~disk[p].ok
            THEN Stop(ErrOpen)
            ELSE Copied(p, IF format = "tar"
                           THEN TarCopy(disk[p].size, disk[p].actual)
                           ELSE ZipCopy(disk[p].size, disk[p].actual))
    IN  IF ps = <<>> THEN Stop(ErrNil) ELSE File(Head(ps))

\* The walk of dirpath and the deferred Close of the archive writer: the
\* tar writer ends the archive unless content of the last entry is missing,
\* the zip writer always writes its directory.
Export(format, disk, dirpath) ==
    LET Closed(walked) ==
            [entries |-> walked.entries,
             err     |-> walked.err,
             ended   |-> \/ format = "zip"
                         \/ walked.entries = <<>>
                         \/ walked.entries[Len(walked.entries)].content
                                = walked.entries[Len(walked.entries)].declared]
    IN  IF dirpath \notin DOMAIN disk
        THEN Closed([entries |-> <<>>, err |-> ErrLstat])
        ELSE Closed(Visit(format, disk, dirpath, walkDir(disk, dirpath), <<>>))

TarType == <<"a", "p", "p", "l", "i", "c", "a", "t", "i", "o", "n", "/", "x", "-", "t", "a", "r">>

ZipType == <<"a", "p", "p", "l", "i", "c", "a", "t", "i", "o", "n", "/", "z", "i", "p">>

AttachmentPrefix ==
    <<"a", "t", "t", "a", "c", "h", "m", "e", "n", "t", ";", " ",
      "f", "i", "l", "e", "n", "a", "m", "e", "=", "\"">>

\* TarDir and ZipDir: the headers and the status, then the stream. The
\* status is written before the walk starts (filesRead is the number of
\* files opened by then); the error of the walk is assigned to the blank
\* identifier, so nothing is logged, and the function returns normally, so
\* the server ends the response as it ends any other.
Archive(format, disk, dirpath, name) ==
    [status      |-> 200,
     filesRead   |-> 0,
     log         |-> <<>>,
     aborted     |-> FALSE,
     contentType |-> IF format = "tar" THEN TarType ELSE ZipType,
     disposition |-> AttachmentPrefix \o name
                         \o (IF format = "tar" THEN <<".", "t", "a", "r", "\"">>
                             ELSE <<".", "z", "i", "p", "\"">>),
     stream      |-> Export(format, disk, dirpath)]

TarDir(disk, dirpath, name) == Archive("tar", disk, dirpath, name)

ZipDir(disk, dirpath, name) == Archive("zip", disk, dirpath, name)

\* ------------------------------------------------------------------------
\* SpecArchive: TarDir and ZipDir applied to the subtrees of a disk
\* ------------------------------------------------------------------------

MaxFileSize == 2

FileSizes == 0..MaxFileSize

\* The disks of the model: one tree, in which the three regular files under
\* /srv/e vary in size, in what a read gives after the size was taken, and
\* in whether they can be opened.
DiskOf(a, b, z, index) ==
    ( <<"/">> :> Node("dir", 0, 0, TRUE)
      @@ <<"/", "a">> :> Node("regular", 1, 1, TRUE)
      @@ <<"/", "d">> :> Node("dir", 0, 0, TRUE)
      @@ <<"/", "d", "/", "s">> :> Node("regular", 1, 1, TRUE)
      @@ <<"/", "s", "r", "v">> :> Node("dir", 0, 0, TRUE)
      @@ <<"/", "s", "r", "v", "/", "d">> :> Node("dir", 0, 0, TRUE)
      @@ <<"/", "s", "r", "v", "/", "d", "/", "i", "n", "d", "e", "x", ".", "h", "t", "m", "l">> :> index
      @@ <<"/", "s", "r", "v", "/", "e">> :> Node("dir", 0, 0, TRUE)
      @@ <<"/", "s", "r", "v", "/", "e", "/", "a">> :> a
      @@ <<"/", "s", "r", "v", "/", "e", "/", "l">> :> Node("symlink", 1, 1, TRUE)
      @@ <<"/", "s", "r", "v", "/", "e", "/", "p">> :> Node("device", 0, 0, TRUE)
      @@ <<"/", "s", "r", "v", "/", "e", "/", "x">> :> Node("dir", 0, 0, TRUE)
      @@ <<"/", "s", "r", "v", "/", "e", "/", "x", "/", "b">> :> b
      @@ <<"/", "s", "r", "v", "/", "e", "/", "z">> :> z
      @@ <<"/", "s", "r", "v", "/", "f">> :> Node("regular", 3, 3, TRUE) )

FileStates ==
    {Node("regular", size, actual, ok) :
         size \in FileSizes, actual \in FileSizes, ok \in BOOLEAN}

Disks ==
    {DiskOf(a, b, z, Node("regular", 2, 2, TRUE)) :
         a \in FileStates, b \in FileStates, z \in FileStates}

ArchiveName == <<"e">>

NotExported == [status |-> 0]

InitArchive ==
    /\ prIn = NoCall
    /\ prOut = NotCalled
    /\ req = NoRequest
    /\ resp = NoResponse
    /\ listing = NoListing
    /\ archive \in [format : {"none"}, disk : Disks,
                    dirpath : {<<"/", "s", "r", "v", "/", "e">>}, out : {NotExported}]
    /\ trail = NoTrail
    /\ run = NoRun
    /\ opening = NoOpening

CallTarDir ==
    /\ archive.format = "none"
    /\ archive # NoArchive
    /\ archive' = [archive EXCEPT
                       !.format = "tar",
                       !.out = TarDir(archive.disk, archive.dirpath, ArchiveName)]
    /\ UNCHANGED <<prIn, prOut, req, resp, listing, trail, run, opening>>

CallZipDir ==
    /\ archive.format = "none"
    /\ archive # NoArchive
    /\ archive' = [archive EXCEPT
                       !.format = "zip",
                       !.out = ZipDir(archive.disk, archive.dirpath, ArchiveName)]
    /\ UNCHANGED <<prIn, prOut, req, resp, listing, trail, run, opening>>

NextArchive == CallTarDir \/ CallZipDir

SpecArchive == InitArchive /\ [][NextArchive]_vars

\* ------------------------------------------------------------------------
\* Properties of TarDir and ZipDir (checked under SpecArchive)
\* ------------------------------------------------------------------------

Exported == archive.format # "none"

\* The files of the subtree below the walk root, and the regular ones.
Below ==
    {p \in DOMAIN archive.disk :
         /\ Len(p) > Len(archive.dirpath) + 1
         /\ SubSeq(p, 1, Len(archive.dirpath) + 1) = archive.dirpath \o <<"/">>}

RegularBelow == {p \in Below : archive.disk[p].kind = "regular"}

\* The path of a file relative to the walk root.
RelativeName(p) == SubSeq(p, Len(archive.dirpath) + 2, Len(p))

EntriesOf(p) ==
    {i \in 1..Len(archive.out.stream.entries) :
         archive.out.stream.entries[i].name = RelativeName(p)}

\* No file changes between the walk's look at it and the copy of its
\* content, and every open and directory read succeeds.
Unchanging ==
    \A p \in Below : archive.disk[p].actual = archive.disk[p].size

NoFailure == \A p \in Below : archive.disk[p].ok

\* C19: over an unchanging subtree (every open succeeding) TarDir and ZipDir
\* write exactly one entry per regular file below the walk root, named by
\* its path relative to the root and carrying exactly its recorded size in
\* content bytes, and no entry for a directory, a symbolic link, a device:
\* those are passed over and the walk goes on.
C19_OneEntryPerRegularFile ==
    Exported /\ Unchanging /\ NoFailure =>
        /\ archive.out.stream.err = ErrNil
        /\ \A p \in RegularBelow :
               /\ Cardinality(EntriesOf(p)) = 1
               /\ \A i \in EntriesOf(p) :
                      /\ archive.out.stream.entries[i].content = archive.disk[p].size
                      /\ archive.out.stream.entries[i].declared = archive.disk[p].size
        /\ \A p \in Below \ RegularBelow : EntriesOf(p) = {}
        /\ Len(archive.out.stream.entries) = Cardinality(RegularBelow)

C19_Witness ==
    /\ Exported /\ Unchanging /\ NoFailure
    /\ archive.format = "zip"
    /\ Len(archive.out.stream.entries) = 3
    /\ archive.out.stream.entries[2].name = <<"x", "/", "b">>
    /\ archive.out.stream.entries[2].content = MaxFileSize
    /\ archive.out.stream.entries[3].name = <<"z">>

\* The walk function returned an error.
WalkFailed == archive.out.stream.err # ErrNil

\* C21: the status 200 and the archive headers are committed before any file
\* is read and an error of the walk never changes the status; such an error
\* aborts the stream, so that the client sees a truncated or aborted transfer
\* and no normally ended archive, and the error is written to the server
\* log. Violated: the error of the walk is discarded; nothing is logged, the
\* response ends normally, and the deferred Close ends the archive.
C21_ErrorAbortsAndLogs ==
    Exported =>
        /\ archive.out.status = 200
        /\ archive.out.filesRead = 0
        /\ WalkFailed =>
               /\ archive.out.aborted \/ ~archive.out.stream.ended
               /\ \E i \in 1..Len(archive.out.log) :
                      archive.out.log[i] = archive.out.stream.err

\* ZipDir on a tree whose file a cannot be opened: 200, an archive without
\* entries that ends with its directory, no log entry.
C21_Witness ==
    /\ Exported
    /\ archive.format = "zip"
    /\ ~archive.disk[archive.dirpath \o <<"/", "a">>].ok
    /\ archive.out.status = 200
    /\ archive.out.stream.err = ErrOpen
    /\ archive.out.stream.entries = <<>>
    /\ archive.out.stream.ended
    /\ ~archive.out.aborted
    /\ archive.out.log = <<>>

\* What does hold: the status is 200, committed before any file is read,
\* whatever the walk meets.
C21_StatusFirst ==
    Exported => archive.out.status = 200 /\ archive.out.filesRead = 0

\* The position of a file in the walk.
WalkPosition(p) ==
    CHOOSE i \in 1..Len(walkDir(archive.disk, archive.dirpath)) :
        walkDir(archive.disk, archive.dirpath)[i] = p

ChangedFiles ==
    {p \in RegularBelow : archive.disk[p].actual # archive.disk[p].size}

\* C20: when a regular file changes size between the walk's record of its
\* size and the copy of its content, the export stops with an error, writes
\* no entry for any later file, and the stream holds no entry whose metadata
\* declares a number of bytes other than the content bytes that follow.
C20_SizeChangeAborts ==
    Exported /\ NoFailure /\ ChangedFiles # {} =>
        /\ archive.out.stream.err # ErrNil
        /\ \A p \in ChangedFiles, q \in RegularBelow :
               WalkPosition(q) > WalkPosition(p) => EntriesOf(q) = {}
        /\ \A i \in 1..Len(archive.out.stream.entries) :
               archive.out.stream.entries[i].declared
                   = archive.out.stream.entries[i].content

\* A tar stream with a header declaring more bytes than follow it.
C20_Witness ==
    /\ Exported /\ NoFailure
    /\ archive.format = "tar"
    /\ archive.out.stream.err = ErrMismatch
    /\ Len(archive.out.stream.entries) = 1
    /\ archive.out.stream.entries[1].declared = 2
    /\ archive.out.stream.entries[1].content = 1
    /\ ~archive.out.stream.ended

\* ------------------------------------------------------------------------
\* serveFile, ServeFile and fileHandler.ServeHTTP
\* ------------------------------------------------------------------------

IndexPage == <<"/", "i", "n", "d", "e", "x", ".", "h", "t", "m", "l">>

ErrNotExist == "file does not exist"

ErrPermission == "permission denied"

ErrOther == "input/output error"

\* Dir(root).Open(name): os.Open of the clean path below root. A missing
\* file, or a path through a file that is no directory, is ErrNotExist.
Open(disk, root, name) ==
    LET At(full) ==
            IF full \notin DOMAIN disk \/ disk[full].kind = "symlink"
            THEN [err |-> ErrNotExist, path |-> full]
            ELSE IF ~disk[full].ok
            THEN [err |-> ErrPermission, path |-> full]
            ELSE [err |-> ErrNil, path |-> full]
    IN  At(Clean(root \o Slash \o Clean(Slash \o name)))

\* filepath.Split
Split2(name) ==
    LET At(i) == [dir |-> SubSeq(name, 1, i), file |-> SubSeq(name, i + 1, Len(name))]
    IN  IF \E i \in 1..Len(name) : name[i] = "/"
        THEN At(CHOOSE i \in 1..Len(name) :
                    name[i] = "/" /\ \A j \in (i + 1)..Len(name) : name[j] # "/")
        ELSE At(0)

\* The deferred Close of the target alone: the index file has none.
DeferredClosesTarget(opened) ==
    IF opened = <<>> THEN <<>> ELSE <<opened[1]>>

\* The calls deferred by serveFile, run when it returns: each file opened
\* has its Close deferred as soon as its Open has succeeded, with the handle
\* the variable holds at that moment, and the last deferred call runs first.
DeferredCloses(opened) ==
    [i \in 1..Len(opened) |-> opened[Len(opened) + 1 - i]]

\* What a handler has done when it returns: the response, the files it
\* opened on the way and the files its deferred calls closed.
Reply(kind, status, opened) ==
    [kind |-> kind, status |-> status, opened |-> opened,
     closed |-> DeferredCloses(opened),
     location |-> NoText, msg |-> "", served |-> NoText,
     content |-> NoResponse, list |-> NotListed, arch |-> NotExported]

toHTTPError(err) ==
    IF err = ErrNotExist THEN [msg |-> "404 page not found", status |-> 404]
    ELSE IF err = ErrPermission THEN [msg |-> "403 Forbidden", status |-> 403]
    ELSE [msg |-> "500 Internal Server Error", status |-> 500]

HTTPError(e, opened) ==
    [Reply("error", e.status, opened) EXCEPT !.msg = e.msg]

\* A redirect that leaves the final slash out of the new path.
localRedirectBare(r, newPath, opened) ==
    [Reply("redirect", 301, opened) EXCEPT
         !.location = IF r.rawQuery # <<>>
                      THEN TrimSuffix(newPath, Slash) \o <<"?">> \o r.rawQuery
                      ELSE TrimSuffix(newPath, Slash)]

\* localRedirect: 301 to newPath, the raw query appended.
localRedirect(r, newPath, opened) ==
    [Reply("redirect", 301, opened) EXCEPT
         !.location = IF r.rawQuery # <<>>
                      THEN newPath \o <<"?">> \o r.rawQuery
                      ELSE newPath]

\* The arguments of the serveContent call of serveFile: the name, the
\* modification time and the size of the file's FileInfo.
ContentOf(r, disk, p) ==
    [method |-> r.method, ifMatch |-> r.ifMatch,
     ifUnmodifiedSince |-> r.ifUnmodifiedSince, ifNoneMatch |-> r.ifNoneMatch,
     ifModifiedSince |-> r.ifModifiedSince, ifRange |-> r.ifRange,
     range |-> r.range, wEtag |-> NoText,
     modtime |-> disk[p].modtime, size |-> disk[p].size,
     dl |-> QueryGet(r.rawQuery, <<"d", "l">>) = <<"t", "r", "u", "e">>,
     extKnown |-> \E i \in 1..Len(Base(p)) : Base(p)[i] = ".",
     seekFail |-> r.seekFail, seekErr |-> "invalid argument",
     wEncoding |-> FALSE]

\* f.ReadDir(-1) on an open directory: the name and the kind of each child.
DirEntries(disk, p) ==
    LET Listed1(ps) ==
            [i \in 1..Len(ps) |->
                [name |-> Base(ps[i]), isDir |-> disk[ps[i]].kind = "dir"]]
    IN  Listed1(ReadDir(disk, p))

EndsInSlashChar(url) == url # <<>> /\ url[Len(url)] = "/"

indexOfNever(disk, r, root, name) == [err |-> ErrNotExist, path |-> NoText]

\* The index.html of the directory name, when it opens and its Stat
\* succeeds.
indexOf(disk, r, root, name) ==
    LET Stated(o) ==
            IF o.err = ErrNil /\ r.statFail = "index"
            THEN [err |-> ErrOther, path |-> o.path]
            ELSE o
    IN  Stated(Open(disk, root, TrimSuffix(name, Slash) \o IndexPage))

serveFile(r, disk, root, name, redirect) ==
    LET url == r.path
        Listing(p, opened, out) ==
            [Reply("listing", out.status, opened) EXCEPT
                 !.served = p, !.list = out]
        Content(p, opened, c) ==
            [Reply("content", c.status, opened) EXCEPT
                 !.served = p, !.content = c]
        \* the tail of serveFile, d and f settled
        Serve(t) ==
            IF disk[t.p].kind = "dir"
            THEN IF checkIfModifiedSince(ContentOf(r, disk, t.p)) = condFalse
                 THEN [Reply("notmodified", 304, t.opened) EXCEPT !.served = t.p]
                 ELSE Listing(t.p, t.opened,
                              dirList(TRUE, DirEntries(disk, t.p), FALSE))
            ELSE Content(t.p, t.opened, serveContent(ContentOf(r, disk, t.p)))
        \* d and f after the look for index.html
        Index(p, ix) ==
            IF ix.err = ErrNil
            THEN [p |-> ix.path, opened |-> <<p, ix.path>>]
            ELSE IF ix.err = ErrOther
            THEN [p |-> p, opened |-> <<p, ix.path>>]
            ELSE [p |-> p, opened |-> <<p>>]
        Stated(p) ==
            IF redirect /\ disk[p].kind = "dir" /\ ~EndsInSlashChar(url)
            THEN localRedirect(r, Base(url) \o Slash, <<p>>)
            ELSE IF redirect /\ disk[p].kind # "dir" /\ EndsInSlashChar(url)
            THEN localRedirect(r, <<".", ".", "/">> \o Base(url), <<p>>)
            ELSE IF disk[p].kind = "dir" /\ (url = <<>> \/ ~EndsInSlashChar(url))
            THEN localRedirect(r, Base(url) \o Slash, <<p>>)
            ELSE Serve(IF disk[p].kind = "dir"
                       THEN Index(p, indexOf(disk, r, root, name))
                       ELSE [p |-> p, opened |-> <<p>>])
        Opened(o) ==
            IF o.err # ErrNil THEN HTTPError(toHTTPError(o.err), <<>>)
            ELSE IF r.statFail = "target"
            THEN HTTPError(toHTTPError(ErrOther), <<o.path>>)
            ELSE Stated(o.path)
    IN  IF HasSuffix(url, IndexPage)
        THEN localRedirect(r, <<".", "/">>, <<>>)
        ELSE Opened(Open(disk, root, name))

\* ServeFile(w, r, name)
ServeFile(r, disk, name) ==
    IF containsDotDot(r.path)
    THEN [Reply("error", 400, <<>>) EXCEPT !.msg = "invalid URL path"]
    ELSE serveFile(r, disk, Split2(name).dir, Split2(name).file, FALSE)

\* The thumbnail branch: the picture ffmpegthumbnailer makes of the file at
\* the URL path, or the stock picture, handed to http.ServeContent with the
\* current time.
ThumbSize == 1

Thumbnail(r) ==
    LET Sent(c) ==
            [Reply("thumbnail", c.status, <<>>) EXCEPT
                 !.served = r.path, !.content = c]
    IN  Sent(serveContent([method |-> r.method, ifMatch |-> r.ifMatch,
                           ifUnmodifiedSince |-> r.ifUnmodifiedSince,
                           ifNoneMatch |-> r.ifNoneMatch,
                           ifModifiedSince |-> r.ifModifiedSince,
                           ifRange |-> r.ifRange, range |-> r.range,
                           wEtag |-> NoText, modtime |-> 2 * TicksPerSecond,
                           size |-> ThumbSize, dl |-> FALSE, extKnown |-> TRUE,
                           seekFail |-> "none", seekErr |-> "",
     wEncoding |-> FALSE]))

\* fileHandler.ServeHTTP with root the directory the server was given.
ServeHTTP(r, disk, root) ==
    LET Archived(out, dirpath) ==
            [Reply("archive", out.status, <<>>) EXCEPT
                 !.served = dirpath, !.arch = out]
        Rooted(rr) ==
            IF HasSuffix(rr.path, Slash)
                   /\ QueryGet(rr.rawQuery, <<"a", "r", "c", "h", "i", "v", "e">>)
                          = <<"t", "a", "r">>
            THEN Archived(TarDir(disk, Clean(rr.path), Base(rr.path)),
                          Clean(rr.path))
            ELSE IF HasSuffix(rr.path, Slash)
                   /\ QueryGet(rr.rawQuery, <<"a", "r", "c", "h", "i", "v", "e">>)
                          = <<"z", "i", "p">>
            THEN Archived(ZipDir(disk, Clean(rr.path), Base(rr.path)),
                          Clean(rr.path))
            ELSE serveFile(rr, disk, root, Clean(rr.path), TRUE)
    IN  IF QueryGet(r.rawQuery, <<"t", "h", "u", "m", "b">>) = <<"t", "r", "u", "e">>
        THEN Thumbnail(r)
        ELSE IF ~HasPrefix(r.path, Slash)
        THEN Rooted([r EXCEPT !.path = Slash \o r.path])
        ELSE Rooted(r)

\* ------------------------------------------------------------------------
\* SpecServe: the two entry points answer one request
\* ------------------------------------------------------------------------

\* The directory the server is started in, and given to FileServer.
ServedRoot == <<"/", "s", "r", "v">>

UrlPaths ==
    { <<"/">>,
      <<"/", "d">>,
      <<"/", "d", "/">>,
      <<"/", "d", "/", "i", "n", "d", "e", "x", ".", "h", "t", "m", "l">>,
      <<"/", "i", "n", "d", "e", "x", ".", "h", "t", "m", "l">>,
      <<"/", "e">>,
      <<"/", "e", "/">>,
      <<"/", "f">>,
      <<"/", "f", "/">>,
      <<"/", "f", "/", "/">>,
      <<"/", "n", "o", "p", "e">>,
      <<"/", "d", "/", ".", ".", "/", "f">>,
      <<"/", "d", "/", ".", ".">>,
      <<"/", ".", ".", "/", "f">>,
      <<"/", "e", "/", ".", ".", "/", "d", "/">>,
      <<"/", "a", ".", ".", "b">>,
      <<"/", "d", "\\", ".", ".", "\\", "f">>,
      <<"d">> }

RawQueries ==
    { <<>>,
      <<"x", "=", "1">>,
      <<"d", "l", "=", "t", "r", "u", "e">>,
      <<"a", "r", "c", "h", "i", "v", "e", "=", "t", "a", "r">>,
      <<"a", "r", "c", "h", "i", "v", "e", "=", "z", "i", "p">>,
      <<"t", "h", "u", "m", "b", "=", "t", "r", "u", "e">> }

\* The disks a request is served from: index.html of /srv/d can be opened,
\* or cannot.
ServedDisk(indexOk) ==
    DiskOf(Node("regular", 1, 1, TRUE), Node("regular", 1, 1, TRUE),
           Node("regular", 1, 1, TRUE), Node("regular", 2, 2, indexOk))

\* The names ServeFile is called with.
ServedNames == { <<"/", "s", "r", "v", "/", "f">>, <<"/", "s", "r", "v", "/", "d">>, <<"/", "s", "r", "v", "/", "n", "o", "p", "e">> }

HandlerRequests ==
    [entry : {"ServeHTTP"}, path : UrlPaths, rawQuery : RawQueries,
     name : {NoText}, method : {"GET", "HEAD"},
     ifMatch : {NoText}, ifUnmodifiedSince : {NoText}, ifNoneMatch : {NoText},
     ifModifiedSince : {NoText, HTTPDate(1)}, ifRange : {NoText},
     range : {NoText, OneByte},
     statFail : {"none", "target", "index"}, indexOk : BOOLEAN,
     seekFail : {"none"}]

\* Requests that leave serveContent through its other exits: a failed
\* precondition, ranges that cannot be satisfied, several ranges, and a file
\* whose Seek fails.
ExitRequests ==
    [entry : {"ServeHTTP"},
     path : { <<"/", "f">>, <<"/", "d", "/">>, <<"/", "e", "/">> },
     rawQuery : {<<>>},
     name : {NoText}, method : {"GET", "HEAD"},
     ifMatch : {NoText, TagX}, ifUnmodifiedSince : {NoText}, ifNoneMatch : {NoText},
     ifModifiedSince : {NoText}, ifRange : {NoText},
     range : {NoText, TwoRanges, RangeHeader(StartText(MaxSize + 1))},
     statFail : {"none"}, indexOk : BOOLEAN,
     seekFail : {"none", "rewind", "range"}]

ServeFileRequests ==
    [entry : {"ServeFile"}, path : UrlPaths, rawQuery : {<<>>, <<"x", "=", "1">>},
     name : ServedNames, method : {"GET"},
     ifMatch : {NoText}, ifUnmodifiedSince : {NoText}, ifNoneMatch : {NoText},
     ifModifiedSince : {NoText}, ifRange : {NoText},
     range : {NoText, OneByte},
     statFail : {"none"}, indexOk : BOOLEAN,
     seekFail : {"none"}]

InitServe ==
    /\ prIn = NoCall
    /\ prOut = NotCalled
    /\ req = NoRequest
    /\ resp = NoResponse
    /\ listing = NoListing
    /\ archive = NoArchive
    /\ trail = NoTrail
    /\ run = NoRun
    /\ opening = NoOpening

CallServeHTTP ==
    /\ req = NoRequest
    /\ \E r \in HandlerRequests \cup ExitRequests :
           /\ req' = r
           /\ resp' = ServeHTTP(r, ServedDisk(r.indexOk), ServedRoot)
    /\ UNCHANGED <<prIn, prOut, listing, archive, trail, run, opening>>

CallServeFile ==
    /\ req = NoRequest
    /\ \E r \in ServeFileRequests :
           /\ req' = r
           /\ resp' = ServeFile(r, ServedDisk(r.indexOk), r.name)
    /\ UNCHANGED <<prIn, prOut, listing, archive, trail, run, opening>>

NextServe == CallServeHTTP \/ CallServeFile

SpecServe == InitServe /\ [][NextServe]_vars

\* ------------------------------------------------------------------------
\* Properties of the dispatcher (SpecServe)
\* ------------------------------------------------------------------------

\* A request has been answered by one of the two entry points.
Dispatched == req # NoRequest

\* The URL path has a segment `..`: two dots between `/` separators or the
\* ends of the path.
HasDotDotSegment(p) ==
    \E i \in 1..(Len(p) - 1) :
        /\ p[i] = "." /\ p[i + 1] = "."
        /\ (i = 1 \/ p[i - 1] = "/")
        /\ (i + 1 = Len(p) \/ p[i + 2] = "/")

Rejected400 ==
    resp.kind = "error" /\ resp.status = 400 /\ resp.opened = <<>>

\* C15: every request whose uncleaned URL path contains a `..` path segment
\* is rejected with status 400 before any resource is opened, at both entry
\* points (ServeFile and ServeHTTP); none has a file, a listing or an archive
\* served. Violated: ServeHTTP never looks for `..`.
C15_DotDotRejected ==
    Dispatched /\ HasDotDotSegment(req.path) => Rejected400

\* ServeHTTP answers GET /d/../f with the content of the file f of the root.
C15_Witness ==
    /\ Dispatched
    /\ req.entry = "ServeHTTP"
    /\ req.path = <<"/", "d", "/", ".", ".", "/", "f">>
    /\ req.rawQuery = <<>>
    /\ resp.kind = "content"
    /\ resp.status \in {200, 206}
    /\ resp.served = ServedRoot \o <<"/", "f">>

\* What does hold: ServeFile rejects every such request.
C15_ServeFileRejects ==
    Dispatched /\ req.entry = "ServeFile" /\ HasDotDotSegment(req.path)
        => Rejected400

\* RFC 3986, 5.2.4: remove_dot_segments, the input buffer consumed from the
\* left and the output buffer grown on the right. Empty segments stay.
LastSlash(s) ==
    CHOOSE i \in 1..Len(s) : s[i] = "/" /\ \A j \in (i + 1)..Len(s) : s[j] # "/"

DropLastSegment(out) ==
    IF \E i \in 1..Len(out) : out[i] = "/"
    THEN SubSeq(out, 1, LastSlash(out) - 1)
    ELSE <<>>

FirstSegmentEnd(in) ==
    IF \E i \in 2..Len(in) : in[i] = "/"
    THEN (CHOOSE i \in 2..Len(in) :
              in[i] = "/" /\ \A j \in 2..(i - 1) : in[j] # "/") - 1
    ELSE Len(in)

RECURSIVE RemoveDots(_, _)
RemoveDots(in, out) ==
    IF in = <<>> THEN out
    ELSE IF HasPrefix(in, <<".", ".", "/">>)
    THEN RemoveDots(SubSeq(in, 4, Len(in)), out)
    ELSE IF HasPrefix(in, <<".", "/">>)
    THEN RemoveDots(SubSeq(in, 3, Len(in)), out)
    ELSE IF HasPrefix(in, <<"/", ".", "/">>)
    THEN RemoveDots(SubSeq(in, 3, Len(in)), out)
    ELSE IF in = <<"/", ".">>
    THEN RemoveDots(<<"/">>, out)
    ELSE IF HasPrefix(in, <<"/", ".", ".", "/">>)
    THEN RemoveDots(SubSeq(in, 4, Len(in)), DropLastSegment(out))
    ELSE IF in = <<"/", ".", ".">>
    THEN RemoveDots(<<"/">>, DropLastSegment(out))
    ELSE IF in = <<".">> \/ in = <<".", ".">>
    THEN RemoveDots(<<>>, out)
    ELSE RemoveDots(SubSeq(in, FirstSegmentEnd(in) + 1, Len(in)),
                    out \o SubSeq(in, 1, FirstSegmentEnd(in)))

\* RFC 3986, 5.2.2 and 5.2.3: the path a client reaches when it follows the
\* relative reference ref from the URL path base (base begins with `/`).
Resolve(base, ref) ==
    IF HasPrefix(ref, Slash)
    THEN RemoveDots(ref, <<>>)
    ELSE RemoveDots(SubSeq(base, 1, LastSlash(base)) \o ref, <<>>)

\* The path and the query of a Location value.
HasQuery(loc) == \E i \in 1..Len(loc) : loc[i] = "?"

QueryMark(loc) == CHOOSE i \in 1..Len(loc) : loc[i] = "?" /\ \A j \in 1..(i - 1) : loc[j] # "?"

LocationPath(loc) ==
    IF HasQuery(loc) THEN SubSeq(loc, 1, QueryMark(loc) - 1) ELSE loc

LocationQuery(loc) ==
    IF HasQuery(loc) THEN SubSeq(loc, QueryMark(loc) + 1, Len(loc)) ELSE <<>>

\* The URL path of the request as ServeHTTP reads it.
RequestPath ==
    IF HasPrefix(req.path, Slash) THEN req.path ELSE Slash \o req.path

RECURSIVE WithoutTrailingSlashes(_)
WithoutTrailingSlashes(p) ==
    IF p # <<>> /\ p[Len(p)] = "/"
    THEN WithoutTrailingSlashes(SubSeq(p, 1, Len(p) - 1))
    ELSE p

\* The file of the served tree the URL path names, and its kind ("none" when
\* there is no such file).
RequestedFile == ServedRoot \o WithoutTrailingSlashes(RemoveDots(RequestPath, <<>>))

RequestedKind ==
    IF RequestedFile \in DOMAIN ServedDisk(req.indexOk)
    THEN ServedDisk(req.indexOk)[RequestedFile].kind
    ELSE "none"

\* The request reaches the file-serving part of the handler: it carries no
\* thumbnail or archive switch, and the Stat of the opened file succeeds.
Switches ==
    { <<"a", "r", "c", "h", "i", "v", "e", "=", "t", "a", "r">>,
      <<"a", "r", "c", "h", "i", "v", "e", "=", "z", "i", "p">>,
      <<"t", "h", "u", "m", "b", "=", "t", "r", "u", "e">> }

PlainHandlerRequest ==
    /\ Dispatched
    /\ req.entry = "ServeHTTP"
    /\ req.rawQuery \notin Switches
    /\ req.statFail # "target"

\* The response is a 301 whose Location leads the client to the path target,
\* carries the query of the request unchanged, and has no content.
RedirectsTo(targets) ==
    /\ resp.kind = "redirect"
    /\ resp.status = 301
    /\ Resolve(RequestPath, LocationPath(resp.location)) \in targets
    /\ LocationQuery(resp.location) = req.rawQuery
    /\ HasQuery(resp.location) <=> req.rawQuery # <<>>
    /\ resp.content = NoResponse
    /\ resp.list = NotListed
    /\ resp.arch = NotExported

IndexSuffix == <<"i", "n", "d", "e", "x", ".", "h", "t", "m", "l">>

EndsInIndexPage == HasSuffix(RequestPath, Slash \o IndexSuffix)

SlashStripped ==
    { RemoveDots(TrimSuffix(RequestPath, Slash), <<>>),
      RemoveDots(WithoutTrailingSlashes(RequestPath), <<>>) }

CanonicalRedirects ==
    /\ EndsInIndexPage
           => /\ RedirectsTo({RemoveDots(TrimSuffix(RequestPath, IndexSuffix), <<>>)})
              /\ resp.opened = <<>>
    /\ ~EndsInIndexPage /\ RequestedKind = "dir" /\ ~HasSuffix(RequestPath, Slash)
           => RedirectsTo({RemoveDots(RequestPath \o Slash, <<>>)})
    /\ ~EndsInIndexPage /\ RequestedKind = "regular" /\ HasSuffix(RequestPath, Slash)
           => RedirectsTo(SlashStripped)

\* C16: the handler answers a URL path ending in /index.html with a 301 to
\* the path without index.html, opening nothing; an existing directory asked
\* for without a final slash with a 301 to the path with the slash; an
\* existing non-directory asked for with a final slash with a 301 to the path
\* without it; the Location carries the query string unchanged and no content
\* is sent. Violated: the Location of the third redirect, ../name, leads
\* elsewhere when the path ends in more than one slash.
C16_Canonicalization ==
    PlainHandlerRequest => CanonicalRedirects

\* GET /f// for the file f: 301 with Location ../f, which a client resolves
\* to /f/f.
C16_Witness ==
    /\ PlainHandlerRequest
    /\ req.path = <<"/", "f", "/", "/">>
    /\ req.rawQuery = <<>>
    /\ resp.kind = "redirect"
    /\ resp.location = <<".", ".", "/", "f">>
    /\ Resolve(RequestPath, resp.location) = <<"/", "f", "/", "f">>

\* What does hold: the three redirects are right for every path that does not
\* end in two slashes.
C16_SingleSlash ==
    PlainHandlerRequest /\ ~HasSuffix(RequestPath, <<"/", "/">>)
        => CanonicalRedirects

\* The request is for a directory of the served tree, its URL path ending in
\* a slash.
DirectoryRequest ==
    PlainHandlerRequest /\ RequestedKind = "dir" /\ HasSuffix(RequestPath, Slash)

\* The index.html of the requested directory.
IndexFile == RequestedFile \o Slash \o IndexSuffix

IndexExists == IndexFile \in DOMAIN ServedDisk(req.indexOk)

\* index.html exists, opens, and its Stat succeeds.
IndexUsable ==
    /\ IndexExists
    /\ ServedDisk(req.indexOk)[IndexFile].ok
    /\ req.statFail # "index"

\* The response is the content of index.html, as serveContent delivers the
\* file with its own size and modification time: whole with 200 to a request
\* without conditions or ranges, its first byte with 206 to bytes=0-0, when
\* the file seeks.
IndexServed ==
    /\ resp.kind = "content"
    /\ resp.served = IndexFile
    /\ resp.list = NotListed
    /\ resp.content =
           serveContent(ContentOf(req, ServedDisk(req.indexOk), IndexFile))
    /\ resp.status = resp.content.status
    /\ req.method = "GET" /\ req.ifModifiedSince = NoText /\ req.range = NoText
              /\ req.ifMatch = NoText /\ req.seekFail = "none"
           => /\ resp.status = 200
              /\ resp.content.header.contentLength
                     = ServedDisk(req.indexOk)[IndexFile].size
    /\ req.ifModifiedSince = NoText /\ req.range = OneByte
              /\ req.ifMatch = NoText /\ req.seekFail = "none"
           => /\ resp.status = 206
              /\ resp.content.header.contentLength = 1

C17_WitnessListing ==
    /\ DirectoryRequest
    /\ IndexExists /\ ~IndexUsable
    /\ resp.kind = "listing"
    /\ resp.served = ServedRoot \o <<"/", "d">>

\* ------------------------------------------------------------------------
\* Properties of parseRange over lists of specs (SpecRange)
\* ------------------------------------------------------------------------

\* The comma-separated specs of the header given to parseRange, trimmed.
HeaderPieces ==
    LET Trimmed(ps) == {TrimString(ps[i]) : i \in 1..Len(ps)}
    IN  IF HasPrefix(prIn.s, BytesPrefix)
        THEN Trimmed(Split(SubSeq(prIn.s, Len(BytesPrefix) + 1, Len(prIn.s)), ","))
        ELSE {}

\* Specs with a fault of the kinds the claim lists: no `-`, a bound that is
\* no integer or is negative, end < start.
ListedFaults ==
    { <<"x">>, <<"1">>, <<"-">>, <<"-", "-", "1">>, <<"-", "x">>,
      <<"1", "-", "x">>, <<"x", "-", "1">>, <<"1", "-", "-", "1">> }
        \cup UNION { {StartEndText(a, b) : b \in 0..(a - 1)} : a \in Nums }

\* The plain spelling of a spec that is written with spaces, a sign or
\* leading zeros.
PlainSpelling(piece) ==
    IF piece = <<"1", " ", "-", " ", "2">> THEN <<"1", "-", "2">>
    ELSE IF piece = <<"+", "1", "-", "2">> THEN <<"1", "-", "2">>
    ELSE IF piece = <<"0", "1", "-", "0", "2">> THEN <<"1", "-", "2">>
    ELSE IF piece = <<"-", "+", "1">> THEN <<"-", "1">>
    ELSE piece

\* The spec begins `a-` with a at or beyond the size.
StartsBeyond(piece) ==
    \E a \in Nums :
        a >= prIn.size /\ HasPrefix(PlainSpelling(piece), StartText(a))

C28_WitnessSkipped ==
    /\ Called
    /\ prIn = [s |-> RangeHeader(<<"1", "-", "x">>), size |-> 1]
    /\ prOut.err = ErrNoOverlap

\* ------------------------------------------------------------------------
\* Seek failures and error texts (Spec)
\* ------------------------------------------------------------------------

\* The seek that takes the size is reached and fails.
SizeSeekFailed == req.seekFail = "size" /\ PassedPreconditions

\* The content type is sniffed and the rewind after it fails.
RewindFailed ==
    req.seekFail = "rewind" /\ PassedPreconditions /\ ~req.dl /\ ~req.extKnown

\* The Range header is honored, it selects bytes of the resource, and the
\* seek to a range start fails.
RangeSeekFailed ==
    /\ req.seekFail = "range"
    /\ resp.parsed
    /\ resp.rangeReq \in {OneByte, TwoRanges}
    /\ req.size >= 1

\* C23: whenever a seek on the content fails during delivery (taking the
\* size, rewinding after sniffing, positioning at a range start) the status
\* is 500. Violated: a failed seek to the start of a single range is answered
\* 416, and a failed seek of the multipart producer leaves the 206.
C23_SeekFailure500 ==
    (Served /\ (SizeSeekFailed \/ RewindFailed \/ RangeSeekFailed))
        => resp.status = 500

\* GET with bytes=0-0 on two bytes, the seek to 0 failing: 416.
C23_Witness ==
    /\ Served
    /\ req.method = "GET" /\ req.range = OneByte /\ req.size = 2
    /\ RangeSeekFailed
    /\ resp.status = 416

\* What does hold: the failures before the Range header is read give 500
\* with the fixed text.
C23_SizeAndRewind500 ==
    (Served /\ (SizeSeekFailed \/ RewindFailed))
        => resp.status = 500 /\ resp.body = ErrorBody("seeker can't seek")

\* C24: the text of an underlying error is never part of a response, and two
\* requests that differ only in that text get the same response. Violated:
\* the 416 that answers a failed seek to the start of a single range carries
\* the text of the seek error as its body.
C24_NoErrorText ==
    Served =>
        /\ resp.body.msg \notin SeekErrors
        /\ \A t \in SeekErrors : serveContent([req EXCEPT !.seekErr = t]) = resp

\* GET with bytes=0-0, the seek failing with "bad file descriptor": the body
\* of the 416 is that text.
C24_Witness ==
    /\ Served
    /\ req.method = "GET" /\ req.range = OneByte /\ req.size = 2
    /\ req.seekFail = "range" /\ req.seekErr = "bad file descriptor"
    /\ resp.status = 416
    /\ resp.body = ErrorBody("bad file descriptor")

\* What does hold: no response other than that 416 depends on the text.
C24_TextOnlyInRangeSeek ==
    (Served /\ ~(req.seekFail = "range" /\ resp.status = 416)) =>
        /\ resp.body.msg \notin SeekErrors
        /\ \A t \in SeekErrors : serveContent([req EXCEPT !.seekErr = t]) = resp

\* What does hold of the dispatcher (SpecServe): an open or stat failure is
\* answered with one of three fixed pairs of status and message.
C24_FixedMessages ==
    (Dispatched /\ resp.kind = "error" /\ resp.status # 400) =>
        <<resp.status, resp.msg>> \in
            { <<404, "404 page not found">>, <<403, "403 Forbidden">>,
              <<500, "500 Internal Server Error">> }

\* The request asks the handler for an archive of a directory of the served
\* tree.
ArchiveRequest ==
    /\ Dispatched
    /\ req.entry = "ServeHTTP"
    /\ req.rawQuery \in
           { <<"a", "r", "c", "h", "i", "v", "e", "=", "t", "a", "r">>,
             <<"a", "r", "c", "h", "i", "v", "e", "=", "z", "i", "p">> }
    /\ HasSuffix(RequestPath, Slash)
    /\ RequestedKind = "dir"

\* The regular files of the subtree the URL path names under the root, by
\* their paths relative to it.
RegularFilesRequested ==
    { SubSeq(p, Len(RequestedFile) + 2, Len(p)) :
        p \in { q \in DOMAIN ServedDisk(req.indexOk) :
                  /\ HasPrefix(q, RequestedFile \o Slash)
                  /\ ServedDisk(req.indexOk)[q].kind = "regular" } }

ArchivedNames ==
    { resp.arch.stream.entries[i].name :
        i \in 1..Len(resp.arch.stream.entries) }

\* The directory the exporter walks lies in the served tree.
WalkedUnderRoot ==
    resp.served = ServedRoot \/ HasPrefix(resp.served, ServedRoot \o Slash)

\* C22: an archive request for the URL path P exports the subtree P names
\* under the configured root: the files of the archive are the regular files
\* of the subtree the lister lists for P, and no file outside the root is
\* read. Violated: TarDir and ZipDir are given the cleaned URL path itself,
\* which the operating system resolves from its own root directory.
C22_ArchiveOfServedSubtree ==
    ArchiveRequest =>
        /\ resp.kind = "archive"
        /\ req.indexOk => ArchivedNames = RegularFilesRequested
        /\ WalkedUnderRoot

\* GET /d/?archive=tar with the root /srv: the archive holds the file s of
\* the directory /d of the machine, not index.html of /srv/d.
C22_Witness ==
    /\ ArchiveRequest
    /\ req.path = <<"/", "d", "/">>
    /\ req.indexOk
    /\ resp.kind = "archive"
    /\ resp.served = <<"/", "d">>
    /\ ArchivedNames = {<<"s">>}
    /\ RegularFilesRequested = {IndexSuffix}

\* ------------------------------------------------------------------------
\* SpecFollow: a client follows the redirects of the handler
\* ------------------------------------------------------------------------

\* The redirects a client follows before it gives up.
MaxHops == 6

FollowPaths ==
    UrlPaths \cup
        { <<"/", "f", "/", "i", "n", "d", "e", "x", ".", "h", "t", "m", "l">>,
          <<"/", "d", "/", "i", "n", "d", "e", "x", ".", "h", "t", "m", "l", "/">>,
          <<"/", "f", "/", ".", "/">>,
          <<"/", "e", "/", "a", "/", "/">>,
          <<"/", "e", "/", "x">>,
          <<"/", "d", "/", ".">>,
          <<"/", ".", ".">> }

FollowRequests ==
    [entry : {"ServeHTTP"}, path : FollowPaths, rawQuery : RawQueries,
     name : {NoText}, method : {"GET"},
     ifMatch : {NoText}, ifUnmodifiedSince : {NoText}, ifNoneMatch : {NoText},
     ifModifiedSince : {NoText}, ifRange : {NoText}, range : {NoText},
     statFail : {"none", "index"}, indexOk : BOOLEAN,
     seekFail : {"none"}]

InitFollow ==
    /\ prIn = NoCall
    /\ prOut = NotCalled
    /\ req = NoRequest
    /\ resp = NoResponse
    /\ listing = NoListing
    /\ archive = NoArchive
    /\ trail = NoTrail
    /\ run = NoRun
    /\ opening = NoOpening

\* The client sends its first request.
SendRequest ==
    /\ req = NoRequest
    /\ \E r \in FollowRequests :
           /\ req' = r
           /\ resp' = ServeHTTP(r, ServedDisk(r.indexOk), ServedRoot)
           /\ trail' = <<r.path>>
    /\ UNCHANGED <<prIn, prOut, listing, archive, run, opening>>

\* The URL the client requests after a 301: the Location resolved against
\* the URL of the request (RFC 3986, 5.2), query included.
Followed(r, location) ==
    [r EXCEPT !.path = Resolve(IF HasPrefix(r.path, Slash) THEN r.path
                               ELSE Slash \o r.path,
                               LocationPath(location)),
              !.rawQuery = LocationQuery(location)]

\* The client follows the 301 it received; the file system is the same.
FollowRedirect ==
    /\ req # NoRequest
    /\ resp.kind = "redirect"
    /\ Len(trail) <= MaxHops
    /\ \E r \in {Followed(req, resp.location)} :
           /\ req' = r
           /\ resp' = ServeHTTP(r, ServedDisk(r.indexOk), ServedRoot)
           /\ trail' = Append(trail, r.path)
    /\ UNCHANGED <<prIn, prOut, listing, archive, run, opening>>

NextFollow == SendRequest \/ FollowRedirect

SpecFollow == InitFollow /\ [][NextFollow]_vars

\* C30: over an unchanging file system, following each 301 of the handler
\* from any URL reaches a response that is no redirect after a bounded
\* number of hops, and no URL is requested twice: the canonicalization rules
\* form no loop. (No chain of the model has more than two redirects.)
C30_NoRedirectLoop ==
    /\ \A i, j \in 1..Len(trail) : i # j => trail[i] # trail[j]
    /\ Len(trail) <= 3
    /\ Len(trail) = 3 => resp.kind # "redirect"

\* /f/index.html for the file f: to /f/, to /f, which is served.
C30_Witness ==
    /\ trail = << <<"/", "f", "/", "i", "n", "d", "e", "x", ".", "h", "t", "m", "l">>,
                  <<"/", "f", "/">>,
                  <<"/", "f">> >>
    /\ resp.kind = "content"
    /\ resp.status = 200

\* ------------------------------------------------------------------------
\* ioFS.Open and mapOpenError
\* ------------------------------------------------------------------------

ErrNotDir == "not a directory"

ErrInvalidPath == "invalid argument"

NameA == <<"a">>

NameAB == <<"a", "/", "b">>

NameABC == <<"a", "/", "b", "/", "c">>

\* The file systems under test: what each valid name below the root is. A
\* name exists only below a directory.
Trees ==
    { t \in [{Dot, NameA, NameAB, NameABC} -> {"dir", "file", "missing"}] :
        /\ t[Dot] = "dir"
        /\ t[NameAB] # "missing" => t[NameA] = "dir"
        /\ t[NameABC] # "missing" => t[NameAB] = "dir" }

OpenNames ==
    { Slash, <<"/", "a">>, <<"/", "a", "/", "b">>, <<"/", "a", "/", "b", "/", "c">>,
      <<"/", "a", "/", "/", "b">>, <<"a", "/", "b">>, <<"/", "a", "/", "c">> }

\* The errors the file system's own Open reports.
OpenErrors == {ErrNotExist, ErrPermission, ErrOther, ErrNotDir, ErrInvalidPath}

\* fs.Stat(fsys, path): the file information of a name that exists.
fsStat(fsys, path) ==
    IF path \in DOMAIN fsys /\ fsys[path] # "missing"
    THEN [err |-> ErrNil, isDir |-> fsys[path] = "dir"]
    ELSE [err |-> ErrNotExist, isDir |-> FALSE]

\* The loop of mapOpenError over parts[i..], empty parts skipped.
RECURSIVE mapOpenErrorLoop(_, _, _, _)
mapOpenErrorLoop(originalErr, parts, i, fsys) ==
    IF i > Len(parts) THEN originalErr
    ELSE IF parts[i] = <<>> THEN mapOpenErrorLoop(originalErr, parts, i + 1, fsys)
    ELSE IF fsStat(fsys, Join(SubSeq(parts, 1, i))).err # ErrNil THEN originalErr
    ELSE IF ~fsStat(fsys, Join(SubSeq(parts, 1, i))).isDir THEN ErrNotExist
    ELSE mapOpenErrorLoop(originalErr, parts, i + 1, fsys)

mapOpenError(originalErr, name, fsys) ==
    IF originalErr = ErrNotExist \/ originalErr = ErrPermission
    THEN originalErr
    ELSE mapOpenErrorLoop(originalErr, Split(name, "/"), 1, fsys)

\* ioFS.Open(name), the file system's Open of the unrooted name having
\* returned err.
ioFSOpen(name, fsys, err) ==
    LET Opened(n) ==
            IF err # ErrNil
            THEN [file |-> NoText, err |-> mapOpenError(err, n, fsys)]
            ELSE [file |-> n, err |-> ErrNil]
    IN  Opened(IF name = Slash THEN Dot ELSE TrimPrefix(name, Slash))

InitOpen ==
    /\ prIn = NoCall
    /\ prOut = NotCalled
    /\ req = NoRequest
    /\ resp = NoResponse
    /\ listing = NoListing
    /\ archive = NoArchive
    /\ trail = NoTrail
    /\ run = NoRun
    /\ opening = NoOpening

\* One call of ioFS.Open. The file system opens only a name that exists, and
\* may fail on any name with any of its errors.
CallOpen ==
    /\ opening = NoOpening
    /\ \E name \in OpenNames, fsys \in Trees, err \in OpenErrors \cup {ErrNil} :
           /\ err = ErrNil =>
                  fsStat(fsys, IF name = Slash THEN Dot
                               ELSE TrimPrefix(name, Slash)).err = ErrNil
           /\ opening' = [name |-> name, fsys |-> fsys, lowErr |-> err,
                          out |-> ioFSOpen(name, fsys, err),
                          status |-> IF err = ErrNil THEN 200
                                     ELSE toHTTPError(ioFSOpen(name, fsys, err).err).status]
    /\ UNCHANGED <<prIn, prOut, req, resp, listing, archive, trail, run>>

NextOpen == CallOpen

SpecOpen == InitOpen /\ [][NextOpen]_vars

OpenFailed == opening # NoOpening /\ opening.lowErr # ErrNil

Ambiguous == OpenFailed /\ opening.lowErr \notin {ErrNotExist, ErrPermission}

\* The parts of the name ioFS.Open hands on, and the name made of the
\* first i of them.
OpenParts ==
    Split(IF opening.name = Slash THEN Dot ELSE TrimPrefix(opening.name, Slash), "/")

IsFileAt(i) ==
    /\ OpenParts[i] # <<>>
    /\ Join(SubSeq(OpenParts, 1, i)) \in DOMAIN opening.fsys
    /\ opening.fsys[Join(SubSeq(OpenParts, 1, i))] = "file"

\* The name passes through a segment that exists and is no directory: a
\* segment with a further segment after it.
TraversesNonDirectory == \E i \in 1..(Len(OpenParts) - 1) : IsFileAt(i)

\* C25: not-exist and permission errors of the low-level open are returned
\* unchanged; any other error becomes NotFound if and only if the path
\* traverses through a segment that exists and is not a directory, and is
\* returned unchanged (status 500) otherwise.
C25_NotFoundIffTraversal ==
    OpenFailed =>
        /\ opening.lowErr \in {ErrNotExist, ErrPermission}
               => opening.out.err = opening.lowErr
        /\ Ambiguous => (opening.out.err = ErrNotExist <=> TraversesNonDirectory)
        /\ Ambiguous /\ ~TraversesNonDirectory
               => opening.out.err = opening.lowErr /\ opening.status = 500

\* The regular file /a, every segment before it a directory, fails to open
\* with an input/output error and is reported as not found.
C25_Witness ==
    /\ OpenFailed
    /\ opening.name = <<"/", "a">>
    /\ opening.fsys[NameA] = "file"
    /\ opening.lowErr = ErrOther
    /\ opening.out.err = ErrNotExist
    /\ opening.status = 404

\* What does hold: the first two kinds of error are returned unchanged, and
\* any other error becomes NotFound exactly when some segment, the last one
\* included, exists and is no directory.
C25_NotFoundIffFileOnPath ==
    OpenFailed =>
        /\ opening.lowErr \in {ErrNotExist, ErrPermission}
               => opening.out.err = opening.lowErr
        /\ Ambiguous =>
               (opening.out.err = ErrNotExist
                    <=> \E i \in 1..Len(OpenParts) : IsFileAt(i))
        /\ Ambiguous /\ ~(\E i \in 1..Len(OpenParts) : IsFileAt(i))
               => opening.out.err = opening.lowErr /\ opening.status = 500

\* ------------------------------------------------------------------------
\* Handles opened and closed by a request (SpecServe)
\* ------------------------------------------------------------------------

\* How often the handler has closed the handle h when it returns.
TimesClosed(h) ==
    Cardinality({ i \in 1..Len(resp.closed) : resp.closed[i] = h })

MaxRanges == 3

MaxChunks == 2

\* The writes the producer makes into the pipe when nothing fails: for each
\* range the part header and the buffers of the range, then the closing
\* boundary. The dry run of rangesMIMESize counts the same writes.
PipeWrites(n, chunks) == n * (1 + chunks) + 1

\* The state after `go func()`: the handler is about to write the response
\* header, the producer about to create the first part. failAt is the range
\* at which the content fails to seek, 0 for a content that seeks.
Started(method, n, chunks, failAt) ==
    [handler |-> "header", producer |-> "create", method |-> method,
     n |-> n, chunks |-> chunks, failAt |-> failAt,
     i |-> 1, k |-> 0,
     offered |-> FALSE, pending |-> FALSE,
     rdClosed |-> FALSE, wrClosed |-> FALSE,
     sendSize |-> PipeWrites(n, chunks), sent |-> 0, clientFailed |-> FALSE,
     fileClosed |-> FALSE, lateAccess |-> FALSE, reason |-> "none"]

\* A handler that returns without closing the read end of the pipe.
closeReadNever(r) == r

\* defer pr.Close()
closeRead(r) == [r EXCEPT !.rdClosed = TRUE]

\* pw.Write(b) of io.Pipe: it returns once the reader has taken all of b,
\* fails once the read end is closed with b not taken, and blocks until then.
pipeWrite(r) ==
    IF r.offered /\ ~r.pending THEN "ok"
    ELSE IF r.rdClosed THEN "closed"
    ELSE "blocked"

\* pw.CloseWithError(err); return
producerFails(r, why) ==
    [r EXCEPT !.producer = "exited", !.reason = why, !.wrClosed = TRUE,
              !.offered = FALSE]

\* The producer after the write at its position has returned without error.
afterWrite(r) ==
    IF r.producer = "create" THEN [r EXCEPT !.producer = "seek", !.offered = FALSE]
    ELSE IF r.producer = "copy"
    THEN IF r.k + 1 < r.chunks
         THEN [r EXCEPT !.producer = "read", !.k = r.k + 1, !.offered = FALSE]
         ELSE IF r.i < r.n
         THEN [r EXCEPT !.producer = "create", !.i = r.i + 1, !.k = 0,
                        !.offered = FALSE]
         ELSE [r EXCEPT !.producer = "finish", !.offered = FALSE]
    ELSE [r EXCEPT !.producer = "closeWrite", !.offered = FALSE]

WritePoints == {"create", "copy", "finish"}

InitPipe ==
    /\ prIn = NoCall
    /\ prOut = NotCalled
    /\ req = NoRequest
    /\ resp = NoResponse
    /\ listing = NoListing
    /\ archive = NoArchive
    /\ trail = NoTrail
    /\ run = NoRun
    /\ opening = NoOpening

\* serveContent reaches `case len(ranges) > 1` and starts the goroutine.
StartMultipart ==
    /\ run = NoRun
    /\ \E method \in {"GET", "HEAD"}, n \in 2..MaxRanges, chunks \in 1..MaxChunks :
           \E failAt \in 0..n :
               run' = Started(method, n, chunks, failAt)
    /\ UNCHANGED <<prIn, prOut, req, resp, listing, archive, trail, opening>>

\* w.WriteHeader(code); a HEAD request skips io.CopyN.
HandlerWriteHeader ==
    /\ run.handler = "header"
    /\ run' = [run EXCEPT !.handler = IF run.method = "HEAD" THEN "closePipe"
                                      ELSE "read"]
    /\ UNCHANGED <<prIn, prOut, req, resp, listing, archive, trail, opening>>

\* pr.Read inside io.CopyN: it takes what the producer has written, or
\* returns the error the write end was closed with.
HandlerRead ==
    /\ run.handler = "read"
    /\ \/ /\ run.pending
          /\ run' = [run EXCEPT !.handler = "write", !.pending = FALSE]
       \/ /\ ~run.pending /\ run.wrClosed
          /\ run' = [run EXCEPT !.handler = "closePipe"]
    /\ UNCHANGED <<prIn, prOut, req, resp, listing, archive, trail, opening>>

\* w.Write inside io.CopyN: the client takes the bytes, or the connection
\* fails and io.CopyN returns.
HandlerWrite ==
    /\ run.handler = "write"
    /\ \/ run' = [run EXCEPT !.sent = run.sent + 1,
                             !.handler = IF run.sent + 1 = run.sendSize
                                         THEN "closePipe" ELSE "read"]
       \/ run' = [run EXCEPT !.handler = "closePipe", !.clientFailed = TRUE]
    /\ UNCHANGED <<prIn, prOut, req, resp, listing, archive, trail, opening>>

\* serveContent returns: the deferred pr.Close() runs.
HandlerClosePipe ==
    /\ run.handler = "closePipe"
    /\ run' = [closeRead(run) EXCEPT !.handler = "closeFile"]
    /\ UNCHANGED <<prIn, prOut, req, resp, listing, archive, trail, opening>>

\* serveFile returns: the deferred f.Close() runs.
HandlerCloseFile ==
    /\ run.handler = "closeFile"
    /\ run' = [run EXCEPT !.handler = "returned", !.fileClosed = TRUE]
    /\ UNCHANGED <<prIn, prOut, req, resp, listing, archive, trail, opening>>

\* The producer hands its bytes to the pipe and waits for the reader.
ProducerOffer ==
    /\ run.producer \in WritePoints
    /\ ~run.offered /\ ~run.rdClosed
    /\ run' = [run EXCEPT !.offered = TRUE, !.pending = TRUE]
    /\ UNCHANGED <<prIn, prOut, req, resp, listing, archive, trail, opening>>

\* The write into the pipe returns: mw.CreatePart, the Write of io.CopyN or
\* mw.Close. An error ends the goroutine with pw.CloseWithError; mw.Close
\* drops its error and pw.Close follows.
ProducerWriteReturns ==
    /\ run.producer \in WritePoints
    /\ pipeWrite(run) # "blocked"
    /\ run' = IF pipeWrite(run) = "ok" THEN afterWrite(run)
              ELSE producerFails(run, "pipe")
    /\ UNCHANGED <<prIn, prOut, req, resp, listing, archive, trail, opening>>

\* content.Seek(ra.start, io.SeekStart). It fails at range failAt; on a file
\* that is already closed it fails or succeeds.
ProducerSeek ==
    /\ run.producer = "seek"
    /\ \E ok \in BOOLEAN :
           /\ run.i = run.failAt => ~ok
           /\ run.i # run.failAt /\ ~run.fileClosed => ok
           /\ run' = IF ok
                     THEN [run EXCEPT !.producer = "read",
                                      !.lateAccess = run.lateAccess \/ run.fileClosed]
                     ELSE [producerFails(run, "content") EXCEPT
                               !.lateAccess = run.lateAccess \/ run.fileClosed]
    /\ UNCHANGED <<prIn, prOut, req, resp, listing, archive, trail, opening>>

\* content.Read inside io.CopyN: one buffer of the range.
ProducerRead ==
    /\ run.producer = "read"
    /\ \E ok \in BOOLEAN :
           /\ ~run.fileClosed => ok
           /\ run' = IF ok
                     THEN [run EXCEPT !.producer = "copy",
                                      !.lateAccess = run.lateAccess \/ run.fileClosed]
                     ELSE [producerFails(run, "content") EXCEPT
                               !.lateAccess = run.lateAccess \/ run.fileClosed]
    /\ UNCHANGED <<prIn, prOut, req, resp, listing, archive, trail, opening>>

\* pw.Close() after mw.Close(): the goroutine ends.
ProducerCloseWrite ==
    /\ run.producer = "closeWrite"
    /\ run' = [run EXCEPT !.producer = "exited", !.reason = "done",
                          !.wrClosed = TRUE]
    /\ UNCHANGED <<prIn, prOut, req, resp, listing, archive, trail, opening>>

Handler ==
    \/ HandlerWriteHeader
    \/ HandlerRead
    \/ HandlerWrite
    \/ HandlerClosePipe
    \/ HandlerCloseFile

Producer ==
    \/ ProducerOffer
    \/ ProducerWriteReturns
    \/ ProducerSeek
    \/ ProducerRead
    \/ ProducerCloseWrite

NextPipe == StartMultipart \/ Handler \/ Producer

SpecPipe == InitPipe /\ [][NextPipe]_vars

\* The Go scheduler runs every goroutine that can run: the handler and the
\* producer each take their next step when it stays possible. A write to the
\* client returns, with or without an error.
SpecPipeFair == SpecPipe /\ WF_vars(Handler) /\ WF_vars(Producer)

\* ------------------------------------------------------------------------
\* Properties of the producer goroutine
\* ------------------------------------------------------------------------

Running == run # NoRun

ProducerExited == run.producer = "exited"

C27_ExitsAtClosedPipe ==
    Running =>
        /\ run.handler \in {"closeFile", "returned"} /\ run.producer \in WritePoints
               => pipeWrite(run) # "blocked"
        /\ run.reason = "done" => run.wrClosed /\ ~run.pending
        /\ run.reason = "done" /\ run.handler = "returned" /\ ~run.clientFailed
               => run.sent = run.sendSize

\* C29: the producer never calls Seek or Read on the content after
\* serveFile's deferred Close of the file.
C29_NoAccessAfterClose == Running => ~run.lateAccess

\* The client fails after the first part header: the handler returns and
\* closes the file, and the producer, whose write had returned, seeks in
\* the closed file.
C29_Witness ==
    /\ Running
    /\ run.method = "GET"
    /\ run.clientFailed
    /\ run.handler = "returned" /\ run.fileClosed
    /\ run.lateAccess
    /\ run.i = 1 /\ run.sent = 0

\* What does hold: the producer touches a closed file only after a write to
\* the client has failed; a HEAD request and a response sent in full never
\* get there.
C29_OnlyAfterClientFailure ==
    Running /\ run.lateAccess => run.method = "GET" /\ run.clientFailed

====
